---- MODULE Spec2Model ----
(***************************************************************************)
(* A model of the UnifiedShopifyProductGenerator tools:                    *)
(*   - menu_editor.py and product_category_path_extractor.py: the category *)
(*     tree, its flat path list and its navigation markup;                 *)
(*   - filename_path_builder.py: the cascading-dropdown filename suggester;*)
(*   - main.py: parse_image_filename, the filename decoder;                *)
(*   - backfill_variant_ids.py: the variant-id backfill.                   *)
(* Python strings are sequences of one-character strings, so that split,   *)
(* replace, title, strip and float are computed character by character.    *)
(***************************************************************************)
EXTENDS Integers, Sequences, FiniteSets, TLC

(***************************************************************************)
(* Characters and strings                                                  *)
(***************************************************************************)

\* The characters the model uses, in code-point order (Python compares
\* strings by code point).
CharOrder ==
    << "\t", " ", "!", "(", ")", "-", ".", "/",
       "0", "1", "2", "3", "4", "5", "6", "7", "8", "9",
       "A", "B", "C", "D", "E", "F", "G", "H", "I", "J", "K", "L", "M",
       "N", "O", "P", "Q", "R", "S", "T", "U", "V", "W", "X", "Y", "Z",
       "_",
       "a", "b", "c", "d", "e", "f", "g", "h", "i", "j", "k", "l", "m",
       "n", "o", "p", "q", "r", "s", "t", "u", "v", "w", "x", "y", "z",
       "|", "É", "é" >>

\* the letters: str.isalpha() holds of letters outside ASCII too
LowerLetters ==
    << "a", "b", "c", "d", "e", "f", "g", "h", "i", "j", "k", "l", "m",
       "n", "o", "p", "q", "r", "s", "t", "u", "v", "w", "x", "y", "z", "é" >>

UpperLetters ==
    << "A", "B", "C", "D", "E", "F", "G", "H", "I", "J", "K", "L", "M",
       "N", "O", "P", "Q", "R", "S", "T", "U", "V", "W", "X", "Y", "Z", "É" >>

DigitChars == << "0", "1", "2", "3", "4", "5", "6", "7", "8", "9" >>

Range(s) == { s[i] : i \in DOMAIN s }

IndexIn(c, tbl) == CHOOSE i \in DOMAIN tbl : tbl[i] = c

LowerSet == Range(LowerLetters)
UpperSet == Range(UpperLetters)
DigitSet == Range(DigitChars)

\* ord(c), up to the gaps between the characters the model uses
CodeTable == [ c \in Range(CharOrder) |-> IndexIn(c, CharOrder) ]

Code(c) == CodeTable[c]

IsLower(c) == c \in LowerSet
IsUpper(c) == c \in UpperSet
IsDigit(c) == c \in DigitSet
IsSpace(c) == c \in { " ", "\t" }

\* str.isalnum() of one character
IsAlnum(c) == IsLower(c) \/ IsUpper(c) \/ IsDigit(c)

\* the regular expression class [\w\-]
IsWordOrHyphen(c) == IsAlnum(c) \/ c = "_" \/ c = "-"

ToUpper(c) == IF IsLower(c) THEN UpperLetters[IndexIn(c, LowerLetters)] ELSE c
ToLower(c) == IF IsUpper(c) THEN LowerLetters[IndexIn(c, UpperLetters)] ELSE c

DigitVal(c) == IndexIn(c, DigitChars) - 1

\* str.lower()
LowerStr(s) == [ i \in DOMAIN s |-> ToLower(s[i]) ]

\* s < t for Python strings: lexicographic by code point
RECURSIVE StrLess(_, _)
StrLess(s, t) ==
    IF t = << >> THEN FALSE
    ELSE IF s = << >> THEN TRUE
    ELSE IF Head(s) = Head(t) THEN StrLess(Tail(s), Tail(t))
    ELSE Code(Head(s)) < Code(Head(t))

\* a variant of ReplaceChar that replaces nothing
ReplaceChar_Nothing(s, a, b) ==
    s

\* s.replace(a, b) for one-character a and b
ReplaceChar(s, a, b) ==
    [ i \in DOMAIN s |-> IF s[i] = a THEN b ELSE s[i] ]

\* s.strip(): leading and trailing whitespace removed
RECURSIVE LStrip(_)
LStrip(s) ==
    IF s # << >> /\ IsSpace(Head(s)) THEN LStrip(Tail(s)) ELSE s

RECURSIVE RStrip(_)
RStrip(s) ==
    IF s # << >> /\ IsSpace(s[Len(s)]) THEN RStrip(SubSeq(s, 1, Len(s) - 1)) ELSE s

Strip(s) == RStrip(LStrip(s))

\* str.title(): a letter is upper-cased when the character before it is not
\* a letter and lower-cased when it is.
RECURSIVE TitleFrom(_, _)
TitleFrom(s, prevCased) ==
    IF s = << >> THEN << >>
    ELSE LET c == Head(s)
             cased == IsLower(c) \/ IsUpper(c)
             out == IF ~cased THEN c
                    ELSE IF prevCased THEN ToLower(c) ELSE ToUpper(c)
         IN  << out >> \o TitleFrom(Tail(s), cased)

Title(s) == TitleFrom(s, FALSE)

\* s.split(d) for a one-character d: always at least one part
RECURSIVE SplitAcc(_, _, _)
SplitAcc(s, d, cur) ==
    IF s = << >> THEN << cur >>
    ELSE IF Head(s) = d THEN << cur >> \o SplitAcc(Tail(s), d, << >>)
    ELSE SplitAcc(Tail(s), d, Append(cur, Head(s)))

Split(s, d) == SplitAcc(s, d, << >>)

\* d.join(parts) for a one-character d
RECURSIVE Join(_, _)
Join(parts, d) ==
    IF parts = << >> THEN << >>
    ELSE IF Len(parts) = 1 THEN parts[1]
    ELSE parts[1] \o << d >> \o Join(Tail(parts), d)

\* the index of the last occurrence of c in s, 0 when there is none
RECURSIVE RFind(_, _)
RFind(s, c) ==
    IF s = << >> THEN 0
    ELSE IF s[Len(s)] = c THEN Len(s)
    ELSE RFind(SubSeq(s, 1, Len(s) - 1), c)

\* the decimal digits of n >= 0, as str(n) writes them
RECURSIVE DecimalStr(_)
DecimalStr(n) ==
    IF n < 10 THEN << DigitChars[n + 1] >>
    ELSE DecimalStr(n \div 10) \o << DigitChars[(n % 10) + 1] >>

(***************************************************************************)
(* float(str) and os.path                                                  *)
(***************************************************************************)

AllDigits(s) == \A i \in DOMAIN s : IsDigit(s[i])

\* the number a string of digits writes (0 for the empty string)
RECURSIVE DigitsValue(_)
DigitsValue(ds) ==
    IF ds = << >> THEN 0
    ELSE 10 * DigitsValue(SubSeq(ds, 1, Len(ds) - 1)) + DigitVal(ds[Len(ds)])

\* m * 10^e with the trailing zeros of m moved into e: equal numbers get
\* equal records, as equal floats compare equal.
RECURSIVE Normalise(_, _)
Normalise(m, e) ==
    IF m = 0 THEN [kind |-> "num", m |-> 0, e |-> 0]
    ELSE IF m % 10 = 0 THEN Normalise(m \div 10, e + 1)
    ELSE [kind |-> "num", m |-> m, e |-> e]

NotANumber == [kind |-> "none", m |-> 0, e |-> 0]

FirstIndexOf(s, cs) ==
    IF \E i \in DOMAIN s : s[i] \in cs
    THEN CHOOSE i \in DOMAIN s : s[i] \in cs /\ \A j \in 1..(i - 1) : s[j] \notin cs
    ELSE 0

\* float(s): the value, or NotANumber where float raises ValueError.
\* Accepted: surrounding whitespace, a sign, digits with at most one point
\* and at least one digit, an exponent, and inf / infinity / nan.
ParseFloat(s) ==
    LET t == Strip(s)
        signed == t # << >> /\ Head(t) \in {"+", "-"}
        neg == signed /\ Head(t) = "-"
        body == IF signed THEN Tail(t) ELSE t
        word == LowerStr(body)
        ePos == FirstIndexOf(body, {"e", "E"})
        mant == IF ePos = 0 THEN body ELSE SubSeq(body, 1, ePos - 1)
        expo == IF ePos = 0 THEN << >> ELSE SubSeq(body, ePos + 1, Len(body))
        expSigned == expo # << >> /\ Head(expo) \in {"+", "-"}
        expDigits == IF expSigned THEN Tail(expo) ELSE expo
        expVal == IF expSigned /\ Head(expo) = "-"
                  THEN 0 - DigitsValue(expDigits) ELSE DigitsValue(expDigits)
        mparts == Split(mant, ".")
        ipart == mparts[1]
        fpart == IF Len(mparts) > 1 THEN mparts[2] ELSE << >>
        mantOk == /\ Len(mparts) <= 2
                  /\ AllDigits(ipart) /\ AllDigits(fpart)
                  /\ Len(ipart) + Len(fpart) >= 1
        expOk == ePos = 0 \/ (expDigits # << >> /\ AllDigits(expDigits))
        mag == DigitsValue(ipart \o fpart)
    IN  IF word \in { <<"i","n","f">>, <<"i","n","f","i","n","i","t","y">> }
        THEN [kind |-> "inf", m |-> IF neg THEN 0 - 1 ELSE 1, e |-> 0]
        ELSE IF word = <<"n","a","n">>
        THEN [kind |-> "nan", m |-> 0, e |-> 0]
        ELSE IF mantOk /\ expOk
        THEN Normalise(IF neg THEN 0 - mag ELSE mag, expVal - Len(fpart))
        ELSE NotANumber

IsFloat(s) == ParseFloat(s).kind # "none"

\* os.path.basename(p): what follows the last "/"
BaseName(p) == SubSeq(p, RFind(p, "/") + 1, Len(p))

\* os.path.splitext(p)[0]: the extension starts at the last point of the
\* file name, unless only points precede it.
SplitExtRoot(p) ==
    LET sep == RFind(p, "/")
        dot == RFind(p, ".")
    IN  IF dot > sep /\ \E i \in (sep + 1)..(dot - 1) : p[i] # "."
        THEN SubSeq(p, 1, dot - 1)
        ELSE p

(***************************************************************************)
(* menu_editor.py: the category tree                                       *)
(*                                                                         *)
(* A tree is a Python dict key -> node, which keeps insertion order: here  *)
(* a sequence of nodes [key, alias, children] with distinct keys, children *)
(* again a tree.  A path is a sequence of keys; the empty string is the    *)
(* catch-all key.                                                          *)
(***************************************************************************)

BlankLabel == << "(", "b", "l", "a", "n", "k", ")" >>

\* the alias build_tree gives a new node when no alias table is passed
DefaultAlias(key) ==
    IF key # << >> THEN Title(ReplaceChar(key, "-", " ")) ELSE BlankLabel

\* the position of key in the dict, 0 when key not in node
KeyIndex(tree, key) ==
    IF \E i \in DOMAIN tree : tree[i].key = key
    THEN CHOOSE i \in DOMAIN tree : tree[i].key = key
    ELSE 0

\* InsertPath without the test "if key not in node": a node that is there
\* is replaced by a new one
RECURSIVE InsertPath_Overwrite(_, _)
InsertPath_Overwrite(tree, p) ==
    IF p = << >> THEN tree
    ELSE LET key == Head(p)
             i == KeyIndex(tree, key)
             fresh == [key |-> key, alias |-> DefaultAlias(key),
                       children |-> InsertPath_Overwrite(<< >>, Tail(p))]
         IN  IF i = 0 THEN Append(tree, fresh) ELSE [tree EXCEPT ![i] = fresh]

\* InsertPath that never finds a key: every level of p gets a new node
RECURSIVE InsertPath_AlwaysNew(_, _)
InsertPath_AlwaysNew(tree, p) ==
    IF p = << >> THEN tree
    ELSE Append(tree, [key |-> Head(p), alias |-> DefaultAlias(Head(p)),
                       children |-> InsertPath_AlwaysNew(<< >>, Tail(p))])

\* a variant of InsertPath that gives a node it walks through the default
\* alias again
RECURSIVE InsertPath_ResetAlias(_, _)
InsertPath_ResetAlias(tree, p) ==
    IF p = << >> THEN tree
    ELSE LET key == Head(p)
             i == KeyIndex(tree, key)
         IN  IF i = 0
             THEN Append(tree, [key |-> key, alias |-> DefaultAlias(key),
                                children |-> InsertPath_ResetAlias(<< >>, Tail(p))])
             ELSE [tree EXCEPT ![i] =
                     [key |-> key, alias |-> DefaultAlias(key),
                      children |-> InsertPath_ResetAlias(tree[i].children, Tail(p))]]

\* one pass of the loop over p in build_tree: walk down, creating the
\* nodes that are not there yet
RECURSIVE InsertPath(_, _)
InsertPath(tree, p) ==
    IF p = << >> THEN tree
    ELSE LET key == Head(p)
             i == KeyIndex(tree, key)
         IN  IF i = 0
             THEN Append(tree, [key |-> key, alias |-> DefaultAlias(key),
                                children |-> InsertPath(<< >>, Tail(p))])
             ELSE [tree EXCEPT ![i].children = InsertPath(tree[i].children, Tail(p))]

RECURSIVE BuildFrom(_, _)
BuildFrom(tree, paths) ==
    IF paths = << >> THEN tree
    ELSE BuildFrom(InsertPath(tree, Head(paths)), Tail(paths))

build_tree(paths) == BuildFrom(<< >>, paths)

\* a variant of FlattenFrom that goes through the dict from its last key
RECURSIVE FlattenFrom_LastFirst(_, _)
FlattenFrom_LastFirst(tree, prefix) ==
    IF tree = << >> THEN << >>
    ELSE LET node == tree[Len(tree)]
             here == IF node.children # << >>
                     THEN FlattenFrom_LastFirst(node.children, Append(prefix, node.key))
                     ELSE << Append(prefix, node.key) >>
         IN  here \o FlattenFrom_LastFirst(SubSeq(tree, 1, Len(tree) - 1), prefix)

\* all key paths from root to leaf, depth first in dict order
RECURSIVE FlattenFrom(_, _)
FlattenFrom(tree, prefix) ==
    IF tree = << >> THEN << >>
    ELSE LET node == Head(tree)
             here == IF node.children # << >>
                     THEN FlattenFrom(node.children, Append(prefix, node.key))
                     ELSE << Append(prefix, node.key) >>
         IN  here \o FlattenFrom(Tail(tree), prefix)

flatten_tree(tree) == FlattenFrom(tree, << >>)

(***************************************************************************)
(* The navigation markup.  A <ul> is the sequence of its <li> elements.    *)
(* A leaf <li> holds <a href=...>alias</a>, a group <li> holds a <button>  *)
(* and a nested <ul class="submenu">.  A link target is the page and its   *)
(* query, the sequence of name=value pairs joined by "&".  A parameter     *)
(* name is written [base, digits]: the word and the digits after it, so    *)
(* subcategory10 is ["subcategory", "10"].                                 *)
(***************************************************************************)

ParamCategory == [base |-> "category", digits |-> << >>]
ParamSubcategory(n) == [base |-> "subcategory", digits |-> DecimalStr(n)]

\* n1 < n2 as Python compares the two names: "category" is below every
\* "subcategory...", and two names of one word compare by their digits,
\* character by character
NameLess(n1, n2) ==
    IF n1.base # n2.base THEN n1.base = "category"
    ELSE StrLess(n1.digits, n2.digits)

CategoryPage == << "c", "a", "t", "e", "g", "o", "r", "y", ".", "h", "t", "m", "l" >>

\* the subcategoryN parameters of all_keys[1:], blank keys skipped
RECURSIVE SubParts(_, _)
SubParts(vals, sub_idx) ==
    IF vals = << >> THEN << >>
    ELSE IF Head(vals) # << >>
    THEN << [name |-> ParamSubcategory(sub_idx), val |-> Head(vals)] >>
         \o SubParts(Tail(vals), sub_idx + 1)
    ELSE SubParts(Tail(vals), sub_idx)

\* url_parts of a leaf whose path is all_keys
UrlParts(all_keys) ==
    (IF all_keys # << >> /\ all_keys[1] # << >>
     THEN << [name |-> ParamCategory, val |-> all_keys[1]] >> ELSE << >>)
    \o SubParts(Tail(all_keys), 1)

\* NavFrom with parent_keys passed down unchanged
RECURSIVE NavFrom_NoParentKey(_, _)
NavFrom_NoParentKey(tree, parent_keys) ==
    IF tree = << >> THEN << >>
    ELSE LET node == Head(tree)
             li == IF node.children # << >>
                   THEN [tag |-> "button", text |-> node.alias,
                         href |-> [page |-> << >>, query |-> << >>],
                         ul |-> NavFrom_NoParentKey(node.children, parent_keys)]
                   ELSE [tag |-> "a", text |-> node.alias,
                         href |-> [page |-> CategoryPage,
                                   query |-> UrlParts(Append(parent_keys, node.key))],
                         ul |-> << >>]
         IN  << li >> \o NavFrom_NoParentKey(Tail(tree), parent_keys)

\* the <li> elements build_nav_html writes for tree, below parent_keys
RECURSIVE NavFrom(_, _)
NavFrom(tree, parent_keys) ==
    IF tree = << >> THEN << >>
    ELSE LET node == Head(tree)
             li == IF node.children # << >>
                   THEN [tag |-> "button", text |-> node.alias,
                         href |-> [page |-> << >>, query |-> << >>],
                         ul |-> NavFrom(node.children, Append(parent_keys, node.key))]
                   ELSE [tag |-> "a", text |-> node.alias,
                         href |-> [page |-> CategoryPage,
                                   query |-> UrlParts(Append(parent_keys, node.key))],
                         ul |-> << >>]
         IN  << li >> \o NavFrom(Tail(tree), parent_keys)

\* the <ul class="nav-content"> build_nav_html returns for the whole tree
build_nav_html(tree) == NavFrom(tree, << >>)

(***************************************************************************)
(* product_category_path_extractor.py                                      *)
(***************************************************************************)

NoAnchor == [found |-> FALSE, href |-> [page |-> << >>, query |-> << >>]]

\* li.find("a", href=True): the first <a> below the element, in document
\* order, at any depth
RECURSIVE FirstAnchorIn(_)
FirstAnchorIn(ul) ==
    IF ul = << >> THEN NoAnchor
    ELSE LET li == Head(ul)
             a == IF li.tag = "a" THEN [found |-> TRUE, href |-> li.href]
                  ELSE FirstAnchorIn(li.ul)
         IN  IF a.found THEN a ELSE FirstAnchorIn(Tail(ul))

FindAnchor(li) == FirstAnchorIn(<< li >>)

\* the parameter names the pattern (category|subcategory\d*) accepts
IsCategoryParam(name) ==
    \/ name = ParamCategory
    \/ name.base = "subcategory" /\ AllDigits(name.digits)

\* the text the group ([\w\-]+) takes from a value: its longest prefix of
\* word characters and hyphens
RECURSIVE WordPrefix(_)
WordPrefix(v) ==
    IF v # << >> /\ IsWordOrHyphen(Head(v))
    THEN << Head(v) >> \o WordPrefix(Tail(v))
    ELSE << >>

\* re.findall(r'[?&](category|subcategory\d*)=([\w\-]+)', href)
RECURSIVE FindAllParams(_)
FindAllParams(query) ==
    IF query = << >> THEN << >>
    ELSE LET q == Head(query)
             v == WordPrefix(q.val)
         IN  (IF IsCategoryParam(q.name) /\ v # << >>
              THEN << [name |-> q.name, val |-> v] >> ELSE << >>)
             \o FindAllParams(Tail(query))

\* sorted(category_match, key=lambda x: x[0]): a stable sort by name
RECURSIVE InsertByName(_, _)
InsertByName(sorted, x) ==
    IF sorted = << >> THEN << x >>
    ELSE IF NameLess(x.name, Head(sorted).name)
    THEN << x >> \o sorted
    ELSE << Head(sorted) >> \o InsertByName(Tail(sorted), x)

RECURSIVE SortByNameFrom(_, _)
SortByNameFrom(sorted, rest) ==
    IF rest = << >> THEN sorted
    ELSE SortByNameFrom(InsertByName(sorted, Head(rest)), Tail(rest))

SortByName(matches) == SortByNameFrom(<< >>, matches)

\* walk_menu(ul, path): the paths appended to paths for this <ul>
RECURSIVE walk_menu(_)
walk_menu(ul) ==
    IF ul = << >> THEN << >>
    ELSE LET li == Head(ul)
             a == FindAnchor(li)
             category_match == FindAllParams(a.href.query)
             cat_path == LET srt == SortByName(category_match)
                         IN  [ i \in DOMAIN srt |-> srt[i].val ]
             link == IF a.found /\ a.href.page = CategoryPage /\ category_match # << >>
                     THEN << cat_path >> ELSE << >>
             sub == IF li.ul # << >> THEN walk_menu(li.ul) ELSE << >>
         IN  link \o sub \o walk_menu(Tail(ul))

\* extract_paths_from_nav on a parsed document whose <nav> holds top_ul
extract_paths_from_nav(top_ul) == walk_menu(top_ul)

\* a variant of DedupFrom in which a path seen again moves to the end
RECURSIVE DedupFrom_MoveToEnd(_, _)
DedupFrom_MoveToEnd(ordered_paths, all_paths) ==
    IF all_paths = << >> THEN ordered_paths
    ELSE DedupFrom_MoveToEnd(
            Append(SelectSeq(ordered_paths, LAMBDA p : p # Head(all_paths)),
                   Head(all_paths)),
            Tail(all_paths))

\* the loop of extract_and_write: duplicates dropped, first occurrence kept
RECURSIVE DedupFrom(_, _)
DedupFrom(ordered_paths, all_paths) ==
    IF all_paths = << >> THEN ordered_paths
    ELSE DedupFrom(IF Head(all_paths) \in Range(ordered_paths)
                   THEN ordered_paths
                   ELSE Append(ordered_paths, Head(all_paths)),
                   Tail(all_paths))

Dedup(all_paths) == DedupFrom(<< >>, all_paths)

(***************************************************************************)
(* main.py: parse_image_filename                                           *)
(***************************************************************************)

\* ScanPrice from the left: the first part after the first one that float()
\* accepts
ScanPrice_Leftmost(parts, i) ==
    IF \E j \in 2..i : IsFloat(parts[j])
    THEN CHOOSE j \in 2..i : IsFloat(parts[j]) /\ \A k \in 2..(j - 1) : ~IsFloat(parts[k])
    ELSE 0

\* the scan "for i in range(len(parts) - 1, 0, -1)": the position (from 1)
\* of the first part, from the right, that float() accepts; the first part
\* of the name is never tried; 0 when the scan ends without a price
RECURSIVE ScanPrice(_, _)
ScanPrice(parts, i) ==
    IF i < 2 THEN 0
    ELSE IF IsFloat(parts[i]) THEN i
    ELSE ScanPrice(parts, i - 1)

tag_labels ==
    << ParamCategory, ParamSubcategory(1), ParamSubcategory(2),
       ParamSubcategory(3), ParamSubcategory(4) >>

NoDescriptor ==
    [title |-> << >>, price |-> NotANumber, categories |-> << >>,
     tags |-> << >>, extra_notes |-> << >>, base_handle |-> << >>]

\* a variant of ParseError whose message quotes the stem of the file name
ParseError_QuotesStem(kind, filename) ==
    [ok |-> FALSE, error |-> kind, quoted |-> SplitExtRoot(BaseName(filename)),
     value |-> NoDescriptor]

\* the ValueError parse_image_filename raises: its kind and the file name
\* its message quotes
ParseError(kind, filename) ==
    [ok |-> FALSE, error |-> kind, quoted |-> filename, value |-> NoDescriptor]

\* the descriptor holds base_handle; the "handle" of the dict returned is
\* Handle(filename, base_handle), defined below
parse_image_filename(filename) ==
    LET name == SplitExtRoot(BaseName(filename))
        parts == Split(name, "_")
        price_idx == ScanPrice(parts, Len(parts))
    IN  IF Len(parts) < 4 THEN ParseError("Filename too short", filename)
        ELSE IF price_idx = 0 THEN ParseError("No valid price found", filename)
        ELSE LET categories == SubSeq(parts, 1, price_idx - 2)
             IN  [ok |-> TRUE, error |-> "", quoted |-> << >>,
                  value |->
                    [title |-> Title(ReplaceChar(parts[price_idx - 1], "-", " ")),
                     price |-> ParseFloat(parts[price_idx]),
                     categories |-> categories,
                     tags |-> [ i \in 1..(IF Len(categories) < Len(tag_labels)
                                          THEN Len(categories) ELSE Len(tag_labels))
                                |-> [label |-> tag_labels[i], cat |-> categories[i]] ],
                     extra_notes |->
                        IF price_idx < Len(parts)
                        THEN ReplaceChar(
                                Join(SubSeq(parts, price_idx + 1, Len(parts)), "_"),
                                "-", " ")
                        ELSE << >>,
                     base_handle |->
                        LowerStr(Join(SubSeq(parts, 1, price_idx - 1), "-"))]]

(***************************************************************************)
(* main.py: the handle of a product and group_images_by_handle             *)
(***************************************************************************)

\* a_b_c_7_n549.png, sha1 a8d380151c...
FileN549 ==
    << "a", "_", "b", "_", "c", "_", "7", "_", "n", "5", "4", "9", ".", "p", "n", "g" >>

\* a_b_c_7_n5766.png, sha1 a8d380965b...
FileN5766 ==
    << "a", "_", "b", "_", "c", "_", "7", "_", "n", "5", "7", "6", "6", ".", "p", "n", "g" >>

\* a_b_c_7.png, sha1 166dc3e455...
FilePlainPng ==
    << "a", "_", "b", "_", "c", "_", "7", ".", "p", "n", "g" >>

\* a_b_c_7.jpg, sha1 3e0c99e97f...
FilePlainJpg ==
    << "a", "_", "b", "_", "c", "_", "7", ".", "j", "p", "g" >>

\* a_b_7.png, sha1 ed992eea26...
FileShort ==
    << "a", "_", "b", "_", "7", ".", "p", "n", "g" >>

\* a_b_c_x.png, sha1 e67225f574...
FileNoPrice ==
    << "a", "_", "b", "_", "c", "_", "x", ".", "p", "n", "g" >>

\* hashlib.sha1(filename.encode()).hexdigest()[:6] for the file names of
\* the model: the first six hexadecimal digits of each name's SHA-1 digest
Sha1Hex6 ==
    (FileN549 :> << "a", "8", "d", "3", "8", "0" >>) @@
    (FileN5766 :> << "a", "8", "d", "3", "8", "0" >>) @@
    (FilePlainPng :> << "1", "6", "6", "d", "c", "3" >>) @@
    (FilePlainJpg :> << "3", "e", "0", "c", "9", "9" >>) @@
    (FileShort :> << "e", "d", "9", "9", "2", "e" >>) @@
    (FileNoPrice :> << "e", "6", "7", "2", "2", "5" >>)

\* salt = hashlib.sha1(filename.encode()).hexdigest()[:6]
Salt(filename) ==
    Sha1Hex6[filename]

\* handle = f"{base_handle}-{salt}"
Handle(filename, base_handle) == base_handle \o << "-" >> \o Salt(filename)

\* img["url"].split("/")[-1]
UrlFileName(url) == Split(url, "/")[Len(Split(url, "/"))]

\* categories[n] if len(categories) > n else ""  (n counted from 0)
CategoryAt(categories, n) ==
    IF Len(categories) > n THEN categories[n + 1] ELSE << >>

\* the text get_ai_description returns: of no concern here
Description == << "d", "e", "s", "c" >>

\* the body of the loop of group_images_by_handle for one image, filename
\* being its file name and res what parse_image_filename gave for it: the
\* product appended, or the line printed when the name does not decode
GroupEntry(url, filename, res) ==
    LET v == res.value
        handle == Handle(filename, v.base_handle)
        product ==
            [id |-> handle, name |-> v.title, description |-> Description,
             price |-> v.price,
             category |-> CategoryAt(v.categories, 0),
             subcategory1 |-> CategoryAt(v.categories, 1),
             subcategory2 |-> CategoryAt(v.categories, 2),
             subcategory3 |-> CategoryAt(v.categories, 3),
             subcategory4 |-> CategoryAt(v.categories, 4),
             images |-> << url >>, shopifyVariantId |-> << >>]
        csv_row ==
            [Handle |-> handle, Title |-> v.title, Tags |-> v.tags,
             Variant_Price |-> v.price, Image_Src |-> url]
    IN  IF res.ok
        THEN [ok |-> TRUE, item |-> [csv_row |-> csv_row, js_product |-> product]]
        ELSE [ok |-> FALSE,
              item |-> [filename |-> filename, error |-> res.error,
                        quoted |-> res.quoted]]

\* one turn of the loop: the file name is taken from the URL, decoded, and
\* the entry made
GroupImage(img) ==
    CHOOSE e \in UNION { { GroupEntry(img.url, filename, res) :
                              res \in { parse_image_filename(filename) } } :
                         filename \in { UrlFileName(img.url) } } : TRUE

\* the items of the entries that are products (ok) or printed lines (~ok)
Items(entries, ok) ==
    [ i \in DOMAIN SelectSeq(entries, LAMBDA e : e.ok = ok) |->
        SelectSeq(entries, LAMBDA e : e.ok = ok)[i].item ]

\* a variant of GroupOutcome in which the first name that does not decode
\* ends the loop
GroupOutcome_StopAtMalformed(entries, fail_at) ==
    LET bad == { i \in DOMAIN entries : ~entries[i].ok }
        upto == IF bad = { } THEN Len(entries)
                ELSE CHOOSE i \in bad : \A j \in bad : i <= j
    IN  [raised |-> FALSE, products |-> Items(SubSeq(entries, 1, upto), TRUE),
         printed |-> Items(SubSeq(entries, 1, upto), FALSE)]

\* what the call leaves when get_ai_description raises in the turn of the
\* image at fail_at (0: it never raises; it is not called for an image that
\* does not decode): the exception leaves the loop, nothing is returned, and
\* the lines of the turns before are printed
GroupOutcome(entries, fail_at) ==
    IF fail_at # 0 /\ entries[fail_at].ok
    THEN [raised |-> TRUE, products |-> << >>,
          printed |-> Items(SubSeq(entries, 1, fail_at - 1), FALSE)]
    ELSE [raised |-> FALSE, products |-> Items(entries, TRUE),
          printed |-> Items(entries, FALSE)]

\* group_images_by_handle: the products in the order of their images, and
\* the lines printed for the images skipped
group_images_by_handle(images, fail_at) ==
    CHOOSE r \in { GroupOutcome(entries, fail_at) :
                     entries \in { [ i \in DOMAIN images |-> GroupImage(images[i]) ] } } : TRUE

(***************************************************************************)
(* filename_path_builder.py: FilenameSuggester                             *)
(*                                                                         *)
(* A dropdown widget is written [values, selected_path]: the values of its *)
(* combobox and the path its on_select callback has captured.              *)
(***************************************************************************)

\* OptionsLoop without the test that the path starts with selected_path
RECURSIVE OptionsLoop_AnyPrefix(_, _, _)
OptionsLoop_AnyPrefix(valid, selected_path, options) ==
    IF valid = << >> THEN options
    ELSE LET path == Head(valid)
             n == Len(selected_path)
         IN  OptionsLoop_AnyPrefix(Tail(valid), selected_path,
                                   IF Len(path) > n
                                   THEN options \cup { path[n + 1] } ELSE options)

\* the loop over self.valid_paths that fills the set options
RECURSIVE OptionsLoop(_, _, _)
OptionsLoop(valid, selected_path, options) ==
    IF valid = << >> THEN options
    ELSE LET path == Head(valid)
             n == Len(selected_path)
             shares == SubSeq(path, 1, IF Len(path) < n THEN Len(path) ELSE n)
                         = selected_path
         IN  OptionsLoop(Tail(valid), selected_path,
                         IF shares /\ Len(path) > n
                         THEN options \cup { path[n + 1] } ELSE options)

\* sorted(options): the strings of the set in increasing order
RECURSIVE SortedStrings(_)
SortedStrings(S) ==
    IF S = {} THEN << >>
    ELSE LET least == CHOOSE x \in S : \A y \in S \ {x} : StrLess(x, y)
         IN  << least >> \o SortedStrings(S \ {least})

\* lst[:n]
Take(lst, n) == SubSeq(lst, 1, IF Len(lst) < n THEN Len(lst) ELSE n)

\* build_cascading_dropdowns that leaves the dropdowns beyond the level of
\* the selection in place
Cascade_KeepsLater(valid, widgets, dvars, selected_path) ==
    LET options == SortedStrings(OptionsLoop(valid, selected_path, {}))
    IN  IF options = << >>
        THEN [widgets |-> widgets, dvars |-> dvars, selected_cats |-> selected_path]
        ELSE [widgets |-> Append(widgets,
                                 [values |-> options, selected_path |-> selected_path]),
              dvars |-> Append(dvars, << >>),
              selected_cats |-> selected_path]

\* build_cascading_dropdowns(selected_path) up to its call of
\* update_preview: the new widgets, variables and selected_cats
Cascade(valid, widgets, dvars, selected_path) ==
    LET kept_widgets == Take(widgets, Len(selected_path))
        kept_vars == Take(dvars, Len(selected_path))
        options == SortedStrings(OptionsLoop(valid, selected_path, {}))
    IN  IF options = << >>
        THEN [widgets |-> kept_widgets, dvars |-> kept_vars,
              selected_cats |-> selected_path]
        ELSE [widgets |-> Append(kept_widgets,
                                 [values |-> options, selected_path |-> selected_path]),
              dvars |-> Append(kept_vars, << >>),
              selected_cats |-> selected_path]

\* get_selected_cat_path: the values of the variables up to the first blank
RECURSIVE get_selected_cat_path(_)
get_selected_cat_path(dvars) ==
    IF dvars = << >> \/ Head(dvars) = << >> THEN << >>
    ELSE << Head(dvars) >> \o get_selected_cat_path(Tail(dvars))

\* update_preview: the text it sets preview_var to
Preview(dvars, title_text, price_text, notes_text) ==
    LET cat_path == get_selected_cat_path(dvars)
        title == ReplaceChar(title_text, " ", "-")
        notes == ReplaceChar(notes_text, " ", "-")
        parts == cat_path
                 \o (IF title # << >> THEN << title >> ELSE << >>)
                 \o (IF price_text # << >> THEN << price_text >> ELSE << >>)
                 \o (IF notes # << >> THEN << notes >> ELSE << >>)
    IN  IF cat_path = << >> THEN << >>
        ELSE Join(parts, "_") \o << ".", "p", "n", "g" >>

(***************************************************************************)
(* backfill_variant_ids.py                                                 *)
(*                                                                         *)
(* A local record is [id, name, price, shopifyVariantId], an external      *)
(* product [title, variants] with variants [price, id]; texts and prices   *)
(* are strings, external ids are numbers.  shopify_map is a function from  *)
(* keys << stripped title, price as float >> to ids.                       *)
(***************************************************************************)

EmptyMap == << >>

\* a variant of MapPut in which the first id entered for a key stays
MapPut_KeepFirst(m, k, v) ==
    [ x \in (DOMAIN m) \cup {k} |-> IF x \in DOMAIN m THEN m[x] ELSE v ]

MapPut(m, k, v) ==
    [ x \in (DOMAIN m) \cup {k} |-> IF x = k THEN v ELSE m[x] ]

\* shopify_map.get(key): the empty string stands for None (both are
\* false in "if variant_id"); a nan price equals no key
MapGet(m, k) ==
    IF k \in DOMAIN m /\ k[2].kind # "nan" THEN m[k] ELSE << >>

\* the loop over prod.get("variants", []) of one product
RECURSIVE MapVariants(_, _, _)
MapVariants(m, title, variants) ==
    IF variants = << >> THEN m
    ELSE MapVariants(
            MapPut(m, << Strip(title), ParseFloat(Head(variants).price) >>,
                   DecimalStr(Head(variants).id)),
            title, Tail(variants))

\* the loop over shopify_products that fills shopify_map, for the products
\* from the a-th to the b-th: they are gone through in order, the first
\* half of them and then the second
RECURSIVE MapRange(_, _, _, _)
MapRange(m, prods, a, b) ==
    IF a > b THEN m
    ELSE IF a = b THEN MapVariants(m, prods[a].title, prods[a].variants)
    ELSE CHOOSE r \in UNION { { MapRange(first, prods, mid + 1, b) :
                                  first \in { MapRange(m, prods, a, mid) } } :
                              mid \in { (a + b) \div 2 } } : TRUE

\* the loop over shopify_products that fills shopify_map
MapProducts(m, prods) == MapRange(m, prods, 1, Len(prods))

\* float() raises ValueError on some price of the fetched variants
BadVariantPrice(prods) ==
    \E i \in DOMAIN prods : \E j \in DOMAIN prods[i].variants :
        ~IsFloat(prods[i].variants[j].price)

\* key = (p["name"].strip(), float(p["price"])) raises for the record: it
\* has no name (KeyError) or float() refuses its price (ValueError)
BadLocalRecord(p) == "name" \notin DOMAIN p \/ ~IsFloat(p.price)

\* the place of the first local record the match loop fails on, 0 when
\* there is none
FirstBadLocal(products) ==
    IF \E i \in DOMAIN products : BadLocalRecord(products[i])
    THEN CHOOSE i \in DOMAIN products :
            /\ BadLocalRecord(products[i])
            /\ \A j \in 1..(i - 1) : ~BadLocalRecord(products[j])
    ELSE 0

\* a variant of MatchLoop that does not list an unmatched record which
\* already carries an id
RECURSIVE MatchLoop_DropKnown(_, _, _)
MatchLoop_DropKnown(m, todo, acc) ==
    IF todo = << >> THEN acc
    ELSE LET p == Head(todo)
             variant_id == MapGet(m, << Strip(p.name), ParseFloat(p.price) >>)
         IN  MatchLoop_DropKnown(m, Tail(todo),
                IF variant_id # << >>
                THEN [acc EXCEPT
                        !.products = Append(@, [p EXCEPT !.shopifyVariantId = variant_id]),
                        !.updated = @ + 1]
                ELSE IF p.shopifyVariantId # << >>
                THEN [acc EXCEPT !.products = Append(@, p)]
                ELSE [acc EXCEPT
                        !.products = Append(@, p),
                        !.not_found = Append(@, p.id)])

\* a variant of MatchLoop that clears the id of an unmatched record
RECURSIVE MatchLoop_ClearUnmatched(_, _, _)
MatchLoop_ClearUnmatched(m, todo, acc) ==
    IF todo = << >> THEN acc
    ELSE LET p == Head(todo)
             variant_id == MapGet(m, << Strip(p.name), ParseFloat(p.price) >>)
         IN  MatchLoop_ClearUnmatched(m, Tail(todo),
                IF variant_id # << >>
                THEN [acc EXCEPT
                        !.products = Append(@, [p EXCEPT !.shopifyVariantId = variant_id]),
                        !.updated = @ + 1]
                ELSE [acc EXCEPT
                        !.products = Append(@, [p EXCEPT !.shopifyVariantId = << >>]),
                        !.not_found = Append(@, p.id)])

\* the loop "for p in products": the records as it leaves them, the count
\* updated and the list not_found
RECURSIVE MatchLoop(_, _, _)
MatchLoop(m, todo, acc) ==
    IF todo = << >> THEN acc
    ELSE LET p == Head(todo)
             key == << Strip(p.name), ParseFloat(p.price) >>
             variant_id == MapGet(m, key)
         IN  MatchLoop(m, Tail(todo),
                IF variant_id # << >>
                THEN [acc EXCEPT
                        !.products = Append(@, [p EXCEPT !.shopifyVariantId = variant_id]),
                        !.updated = @ + 1]
                ELSE [acc EXCEPT
                        !.products = Append(@, p),
                        !.not_found = Append(@, p.id)])

\* the lines "  - {pid}" logged for the records that were not matched
UnmatchedLines(not_found) ==
    [ i \in DOMAIN not_found |-> [msg |-> "unmatched", arg |-> not_found[i]] ]

(***************************************************************************)
(* menu_editor.py: the interactive editor                                  *)
(*                                                                         *)
(* The Treeview is a sequence of items [text, children]; an item is named  *)
(* by its position, the sequence of indices that leads to it.              *)
(***************************************************************************)

LabelSeparator == << " ", "|", " " >>

\* the text of a Treeview item: f"{key if key else '(blank)'} | {alias}"
ItemText(key, alias) ==
    (IF key # << >> THEN key ELSE BlankLabel) \o LabelSeparator \o alias

\* MenuEditorApp.populate_tree
RECURSIVE populate_tree(_)
populate_tree(subtree) ==
    [ i \in DOMAIN subtree |->
        [text |-> ItemText(subtree[i].key, subtree[i].alias),
         children |-> populate_tree(subtree[i].children)] ]

\* s.startswith(t)
StartsWith(s, t) == Len(s) >= Len(t) /\ SubSeq(s, 1, Len(t)) = t

\* label.split(" | ")[0]: the text before the first separator
RECURSIVE FirstPart(_)
FirstPart(label) ==
    IF label = << >> \/ StartsWith(label, LabelSeparator) THEN << >>
    ELSE << Head(label) >> \o FirstPart(Tail(label))

\* get_tree_path: the key an item's text stands for
LabelKey(text) ==
    LET key == FirstPart(text) IN IF key = BlankLabel THEN << >> ELSE key

\* the items at one level of the Treeview that hold the position pos
RECURSIVE ItemAt(_, _)
ItemAt(items, pos) ==
    IF Len(pos) = 1 THEN items[Head(pos)]
    ELSE ItemAt(items[Head(pos)].children, Tail(pos))

\* every position of an item of the Treeview
RECURSIVE Positions(_)
Positions(items) ==
    UNION { { << i >> } \cup { << i >> \o q : q \in Positions(items[i].children) } :
            i \in DOMAIN items }

\* MenuEditorApp.get_tree_path: the keys from the root down to the item
get_tree_path(items, pos) ==
    [ n \in 1..Len(pos) |-> LabelKey(ItemAt(items, SubSeq(pos, 1, n)).text) ]

\* tk_tree.insert(parent, "end", text=...): parent << >> is the root
RECURSIVE InsertItem(_, _, _)
InsertItem(items, parent, text) ==
    IF parent = << >> THEN Append(items, [text |-> text, children |-> << >>])
    ELSE [items EXCEPT ![Head(parent)].children = InsertItem(@, Tail(parent), text)]

\* a sequence without its i-th element
RemoveAt(seq, i) == SubSeq(seq, 1, i - 1) \o SubSeq(seq, i + 1, Len(seq))

\* tk_tree.delete(item)
RECURSIVE DeleteItem(_, _)
DeleteItem(items, pos) ==
    IF Len(pos) = 1 THEN RemoveAt(items, Head(pos))
    ELSE [items EXCEPT ![Head(pos)].children = DeleteItem(@, Tail(pos))]

\* tk_tree.item(item, text=...)
RECURSIVE SetItemText(_, _, _)
SetItemText(items, pos, text) ==
    IF Len(pos) = 1 THEN [items EXCEPT ![Head(pos)].text = text]
    ELSE [items EXCEPT ![Head(pos)].children = SetItemText(@, Tail(pos), text)]

\* the walk "parent_node = parent_node[level]['children']" meets no KeyError
RECURSIVE HasPath(_, _)
HasPath(tree, path) ==
    \/ path = << >>
    \/ /\ KeyIndex(tree, Head(path)) # 0
       /\ HasPath(tree[KeyIndex(tree, Head(path))].children, Tail(path))

\* the dict that walk ends in
RECURSIVE ChildrenAt(_, _)
ChildrenAt(tree, path) ==
    IF path = << >> THEN tree
    ELSE ChildrenAt(tree[KeyIndex(tree, Head(path))].children, Tail(path))

\* dict.keys()
DictKeys(tree) == { tree[i].key : i \in DOMAIN tree }

\* d[key] = node: a key that is there keeps its place and gets the new value
DictSet(tree, key, node) ==
    IF KeyIndex(tree, key) = 0 THEN Append(tree, node)
    ELSE [tree EXCEPT ![KeyIndex(tree, key)] = node]

\* parent_node[key] = {...} in the dict that the walk along path ends in
RECURSIVE SetChild(_, _, _)
SetChild(tree, path, node) ==
    IF path = << >> THEN DictSet(tree, node.key, node)
    ELSE [tree EXCEPT ![KeyIndex(tree, Head(path))].children =
                          SetChild(@, Tail(path), node)]

\* a variant of DelChild that deletes the first key of the dict the walk
\* ends in
RECURSIVE DelChild_First(_, _)
DelChild_First(tree, path) ==
    IF Len(path) = 1 THEN Tail(tree)
    ELSE [tree EXCEPT ![KeyIndex(tree, Head(path))].children = DelChild_First(@, Tail(path))]

\* del parent_node[path[-1]] after the walk along path[:-1]
RECURSIVE DelChild(_, _)
DelChild(tree, path) ==
    IF Len(path) = 1 THEN RemoveAt(tree, KeyIndex(tree, Head(path)))
    ELSE [tree EXCEPT ![KeyIndex(tree, Head(path))].children = DelChild(@, Tail(path))]

\* a variant of validate without the test of the sibling keys
validate_NoSiblingTest(key_var, alias_var, is_new, sibling_keys) ==
    LET key == Strip(key_var)
    IN  IF key # << >>
           /\ (" " \in Range(key)
               \/ \E i \in DOMAIN key : ~(IsAlnum(key[i]) \/ key[i] \in { "-", "_" }))
        THEN "Key must be URL-safe"
        ELSE IF Strip(alias_var) = << >> THEN "Alias (display name) is required."
        ELSE ""

\* NodeDialog.validate: the message of the error box it shows, "" when it
\* returns True
validate(key_var, alias_var, is_new, sibling_keys) ==
    LET key == Strip(key_var)
    IN  IF key # << >>
           /\ (" " \in Range(key)
               \/ \E i \in DOMAIN key : ~(IsAlnum(key[i]) \/ key[i] \in { "-", "_" }))
        THEN "Key must be URL-safe"
        ELSE IF is_new /\ key \in sibling_keys THEN "Key already exists at this level."
        ELSE IF Strip(alias_var) = << >> THEN "Alias (display name) is required."
        ELSE ""

\* NodeDialog, OK pressed once and the dialog cancelled when validate
\* refuses: the dialog as it is left, result << >> for None
NodeDialog(title, key_var, alias_var, is_new, sibling_keys) ==
    LET error == validate(key_var, alias_var, is_new, sibling_keys)
    IN  [title |-> title, key_var |-> key_var, alias_var |-> alias_var,
         error |-> error, answer |-> IF error = "" THEN "ok" ELSE "cancel",
         result |-> IF error = "" THEN << Strip(key_var), Strip(alias_var) >>
                    ELSE << >>]

(***************************************************************************)
(* State                                                                   *)
(***************************************************************************)

VARIABLES
    \* the category tools
    paths_file,     \* VALID_CATEGORY_PATHS in valid_category_paths.py
    editor,         \* "closed" or "open": the menu editor process
    paths,          \* the list menu_editor loaded at start
    tree_data,      \* MenuEditorApp.tree_data
    nav_html,       \* nav/nav.html: [exists, ul]
    soup,           \* the document the extractor parsed last: [parsed, ul]
    all_paths,      \* the paths the extractor read from it
    tk_tree,        \* MenuEditorApp.tk_tree: the items of the Treeview
    selection,      \* the position of the selected item, << >> when none
    dialog,         \* the dialog or message box an edit handler showed last
    callback_error, \* the exception the last edit handler ended with, "" when none
    \* the filename decoder
    filename,       \* the file name given to parse_image_filename
    parsed,         \* [done, result]: what the call returned or raised
    images,         \* the images given to group_images_by_handle
    grouped,        \* [done, raised, products, printed]: how the call ended
    \* the filename suggester
    valid_paths,        \* FilenameSuggester.valid_paths
    selected_cats,      \* FilenameSuggester.selected_cats
    dropdown_vars,      \* the values of the dropdown variables
    dropdown_widgets,   \* the dropdowns: [values, selected_path]
    title_var,
    price_var,
    notes_var,
    preview_var,
    clipboard,          \* what pyperclip.copy was given last
    \* the variant-id backfill
    products_js,        \* products.js: [exists, array, products]
    catalog,            \* the products of the shop, as its API lists them
    run_btn,            \* "normal" or "disabled"
    pc,                 \* where the worker thread is; "idle" when there is none
    page,               \* get_all_shopify_products: the page counter
    products,           \* _backfill: the records loaded from products.js
    shopify_products,   \* get_all_shopify_products: the products fetched
    shopify_map,        \* _backfill: key -> variant id
    updated,            \* _backfill: the count of records given an id
    not_found,          \* _backfill: the ids of the records without a match
    log                 \* the lines of the log window

viewVars == << tk_tree, selection, dialog, callback_error >>
treeVars == << paths_file, editor, paths, tree_data, nav_html, soup, all_paths, viewVars >>
fileVars == << filename, parsed, images, grouped >>
suggestVars == << valid_paths, selected_cats, dropdown_vars, dropdown_widgets,
                  title_var, price_var, notes_var, preview_var, clipboard >>

backfillVars == << products_js, catalog, run_btn, pc, page, products, shopify_products,
                   shopify_map, updated, not_found, log >>

vars == << treeVars, fileVars, suggestVars, backfillVars >>

\* what the steps of one tool leave alone: the state of the other tools
notTreeVars == << fileVars, suggestVars, backfillVars >>
notFileVars == << treeVars, suggestVars, backfillVars >>
notSuggestVars == << treeVars, fileVars, backfillVars >>
notBackfillVars == << treeVars, fileVars, suggestVars >>

\* all sequences over S of length at most n
SeqsUpTo(S, n) == UNION { [1..k -> S] : k \in 0..n }

(***************************************************************************)
(* The category pipeline: valid_category_paths.py -> menu editor ->        *)
(* nav.html -> extractor -> valid_category_paths.py                        *)
(***************************************************************************)

\* the longest list of paths the paths file starts with
MaxPaths == 2

KeyA == << "a" >>
KeyB == << "b" >>
KeyBlank == << >>

Keys == { KeyA, KeyB, KeyBlank }

\* a path of eleven levels: its last link parameter is subcategory10
LongPath == << KeyA, KeyA, KeyA, KeyA, KeyA, KeyA, KeyA, KeyA, KeyA, KeyA, KeyB >>

PathPool ==
    { << k >> : k \in Keys }
    \cup { << k1, k2 >> : k1 \in Keys, k2 \in Keys }
    \cup { << KeyA, KeyBlank, KeyB >>, << KeyA, KeyB, KeyA >>, LongPath }

NoFile == [exists |-> FALSE, ul |-> << >>]
NoDialog == [title |-> "", key_var |-> << >>, alias_var |-> << >>, error |-> "",
             answer |-> "", result |-> << >>]
NoSoup == [parsed |-> FALSE, ul |-> << >>]

TreeIdle ==
    /\ paths_file = << >>
    /\ editor = "closed"
    /\ paths = << >>
    /\ tree_data = << >>
    /\ nav_html = NoFile
    /\ soup = NoSoup
    /\ all_paths = << >>
    /\ tk_tree = << >>
    /\ selection = << >>
    /\ dialog = NoDialog
    /\ callback_error = ""

TreeInit ==
    /\ paths_file \in SeqsUpTo(PathPool, MaxPaths)
    /\ editor = "closed"
    /\ paths = << >>
    /\ tree_data = << >>
    /\ nav_html = NoFile
    /\ soup = NoSoup
    /\ all_paths = << >>
    /\ tk_tree = << >>
    /\ selection = << >>
    /\ dialog = NoDialog
    /\ callback_error = ""

\* menu_editor.py __main__: load the path list and build the tree
StartEditor ==
    /\ editor = "closed"
    /\ editor' = "open"
    /\ paths' = paths_file
    /\ tree_data' = build_tree(paths_file)
    /\ tk_tree' = populate_tree(tree_data')
    /\ selection' = << >>
    /\ dialog' = NoDialog
    /\ callback_error' = ""
    /\ UNCHANGED << paths_file, nav_html, soup, all_paths >>
    /\ UNCHANGED notTreeVars

\* the editor window is closed; its tree is gone
CloseEditor ==
    /\ editor = "open"
    /\ editor' = "closed"
    /\ paths' = << >>
    /\ tree_data' = << >>
    /\ tk_tree' = << >>
    /\ selection' = << >>
    /\ dialog' = NoDialog
    /\ callback_error' = ""
    /\ UNCHANGED << paths_file, nav_html, soup, all_paths >>
    /\ UNCHANGED notTreeVars

\* MenuEditorApp.export_all: write the flat list and the markup
export_all ==
    /\ editor = "open"
    /\ paths_file' = flatten_tree(tree_data)
    /\ nav_html' = [exists |-> TRUE, ul |-> build_nav_html(tree_data)]
    /\ UNCHANGED << editor, paths, tree_data, soup, all_paths, viewVars >>
    /\ UNCHANGED notTreeVars

\* CategoryPathExtractorApp.extract_and_write on nav/nav.html
extract_and_write ==
    /\ nav_html.exists
    /\ soup' = [parsed |-> TRUE, ul |-> nav_html.ul]
    /\ all_paths' = extract_paths_from_nav(nav_html.ul)
    /\ paths_file' = Dedup(all_paths')
    /\ UNCHANGED << editor, paths, tree_data, nav_html, viewVars >>
    /\ UNCHANGED notTreeVars

TreeNext ==
    \/ StartEditor
    \/ CloseEditor
    \/ export_all
    \/ extract_and_write

(***************************************************************************)
(* Bulk import alone: the editor is started on a path list                 *)
(***************************************************************************)

\* the most paths of an imported list
MaxImport == 3

ImportPool ==
    { << KeyA >>, << KeyA, KeyB >>, << KeyB >>, << KeyA, KeyBlank >> }

ImportInit ==
    /\ paths_file \in SeqsUpTo(ImportPool, MaxImport)
    /\ editor = "closed"
    /\ paths = << >>
    /\ tree_data = << >>
    /\ nav_html = NoFile
    /\ soup = NoSoup
    /\ all_paths = << >>
    /\ tk_tree = << >>
    /\ selection = << >>
    /\ dialog = NoDialog
    /\ callback_error = ""

ImportNext ==
    \/ StartEditor
    \/ CloseEditor

(***************************************************************************)
(* The extractor alone, on a nav.html written by hand                      *)
(***************************************************************************)

\* the most links of a hand-written menu
MaxLinks == 3

KeyC == << "c" >>
KeyD == << "d" >>

Param(name, val) == [name |-> name, val |-> val]

\* the queries of the links: category=a, category=b,
\* subcategory1=b&category=a, category=a&subcategory2=c&subcategory10=d
LinkPool ==
    { << Param(ParamCategory, KeyA) >>,
      << Param(ParamCategory, KeyB) >>,
      << Param(ParamSubcategory(1), KeyB), Param(ParamCategory, KeyA) >>,
      << Param(ParamCategory, KeyA), Param(ParamSubcategory(2), KeyC),
         Param(ParamSubcategory(10), KeyD) >> }

\* <li><a href="category.html?..." class="nav-link">Link</a></li>
LinkItem(query) ==
    [tag |-> "a", text |-> << "L", "i", "n", "k" >>,
     href |-> [page |-> CategoryPage, query |-> query], ul |-> << >>]

\* a <ul class="nav-content"> of links
FlatMenu(links) == [ i \in DOMAIN links |-> LinkItem(links[i]) ]

ExtractInit ==
    /\ paths_file = << >>
    /\ editor = "closed"
    /\ paths = << >>
    /\ tree_data = << >>
    /\ nav_html \in { [exists |-> TRUE, ul |-> FlatMenu(links)] :
                        links \in SeqsUpTo(LinkPool, MaxLinks) }
    /\ soup = NoSoup
    /\ all_paths = << >>
    /\ tk_tree = << >>
    /\ selection = << >>
    /\ dialog = NoDialog
    /\ callback_error = ""

ExtractNext ==
    \/ extract_and_write

(***************************************************************************)
(* An editing session of the menu editor                                   *)
(***************************************************************************)

\* an add goes through while the tree has fewer nodes, and the Treeview
\* fewer items, than this
MaxNodes == 3

KeyParen == << "(", "b", "l", "a", "n", "k", ")" >>

\* the path lists an editing session starts from
EditorImports ==
    { << << KeyA, KeyB >> >>,
      << << KeyParen >> >>,
      << << KeyBlank >>, << KeyParen >> >> }

\* what is typed into the key entry of the dialog
KeyTexts ==
    { << " ", "é", "\t" >>, << >>, << "a", " ", "b" >>, << "a", "!" >> }

\* what is typed into the alias entry of the dialog
AliasTexts == { << "X" >>, << " " >> }

RECURSIVE NodeCount(_)
NodeCount(tree) ==
    IF tree = << >> THEN 0
    ELSE 1 + NodeCount(Head(tree).children) + NodeCount(Tail(tree))

EditorInit ==
    /\ paths_file \in EditorImports
    /\ editor = "closed"
    /\ paths = << >>
    /\ tree_data = << >>
    /\ nav_html = NoFile
    /\ soup = NoSoup
    /\ all_paths = << >>
    /\ tk_tree = << >>
    /\ selection = << >>
    /\ dialog = NoDialog
    /\ callback_error = ""

\* a message box of the editor
MessageBox(title, text) ==
    [title |-> title, key_var |-> << >>, alias_var |-> << >>, error |-> text,
     answer |-> "ok", result |-> << >>]

\* the user clicks an item of the Treeview
SelectItem ==
    /\ editor = "open"
    /\ \E pos \in Positions(tk_tree) :
         /\ selection # pos
         /\ selection' = pos
    /\ UNCHANGED << paths_file, editor, paths, tree_data, nav_html, soup, all_paths,
                    tk_tree, dialog, callback_error >>
    /\ UNCHANGED notTreeVars

\* MenuEditorApp.add_parent
add_parent ==
    /\ editor = "open"
    /\ \E k \in KeyTexts, a \in AliasTexts :
         LET d == NodeDialog("Add Parent", k, a, TRUE, DictKeys(tree_data))
         IN  /\ dialog' = d
             /\ d.result # << >> =>
                    NodeCount(tree_data) < MaxNodes /\ NodeCount(tk_tree) < MaxNodes
             /\ IF d.result # << >>
                THEN /\ tree_data' = DictSet(tree_data, d.result[1],
                                             [key |-> d.result[1], alias |-> d.result[2],
                                              children |-> << >>])
                     /\ tk_tree' = InsertItem(tk_tree, << >>,
                                              ItemText(d.result[1], d.result[2]))
                ELSE UNCHANGED << tree_data, tk_tree >>
    /\ callback_error' = ""
    /\ UNCHANGED << paths_file, editor, paths, nav_html, soup, all_paths, selection >>
    /\ UNCHANGED notTreeVars

\* MenuEditorApp.add_child
add_child ==
    /\ editor = "open"
    /\ IF selection = << >>
       THEN /\ dialog' = MessageBox("Info", "Select a parent node.")
            /\ callback_error' = ""
            /\ UNCHANGED << tree_data, tk_tree >>
       ELSE LET parent_path == get_tree_path(tk_tree, selection)
            IN  IF ~HasPath(tree_data, parent_path)
                THEN /\ callback_error' = "KeyError"
                     /\ UNCHANGED << tree_data, tk_tree, dialog >>
                ELSE \E k \in KeyTexts, a \in AliasTexts :
                       LET d == NodeDialog("Add Child", k, a, TRUE,
                                           DictKeys(ChildrenAt(tree_data, parent_path)))
                       IN  /\ dialog' = d
                           /\ callback_error' = ""
                           /\ d.result # << >> =>
                                  /\ NodeCount(tree_data) < MaxNodes
                                  /\ NodeCount(tk_tree) < MaxNodes
                           /\ IF d.result # << >>
                              THEN /\ tree_data' =
                                        SetChild(tree_data, parent_path,
                                                 [key |-> d.result[1],
                                                  alias |-> d.result[2],
                                                  children |-> << >>])
                                   /\ tk_tree' = InsertItem(tk_tree, selection,
                                                    ItemText(d.result[1], d.result[2]))
                              ELSE UNCHANGED << tree_data, tk_tree >>
    /\ UNCHANGED << paths_file, editor, paths, nav_html, soup, all_paths, selection >>
    /\ UNCHANGED notTreeVars

\* the keys of a node dict
FieldNames ==
    { << "k", "e", "y" >>, << "a", "l", "i", "a", "s" >>,
      << "c", "h", "i", "l", "d", "r", "e", "n" >> }

\* MenuEditorApp.edit_alias.  The walk "node = node[level]" indexes the
\* tree with the first key and the node dict it finds with every further
\* one; a further key that is no field name raises KeyError.  (A further
\* key that is a field name is not among the keys of the model.)
edit_alias ==
    /\ editor = "open"
    /\ IF selection = << >>
       THEN /\ dialog' = MessageBox("Info", "Select a node to edit.")
            /\ callback_error' = ""
            /\ UNCHANGED << tree_data, tk_tree >>
       ELSE LET path == get_tree_path(tk_tree, selection)
                i == KeyIndex(tree_data, path[1])
            IN  /\ Len(path) >= 2 => path[2] \notin FieldNames
                /\ IF i = 0 \/ Len(path) >= 2
                   THEN /\ callback_error' = "KeyError"
                        /\ UNCHANGED << tree_data, tk_tree, dialog >>
                   ELSE \E a \in AliasTexts :
                          LET d == NodeDialog("Edit Alias", tree_data[i].key, a, FALSE, { })
                          IN  /\ dialog' = d
                              /\ callback_error' = ""
                              /\ IF d.result # << >>
                                 THEN /\ tree_data' = [tree_data EXCEPT ![i].alias = d.result[2]]
                                      /\ tk_tree' = SetItemText(tk_tree, selection,
                                                      ItemText(tree_data[i].key, d.result[2]))
                                 ELSE UNCHANGED << tree_data, tk_tree >>
    /\ UNCHANGED << paths_file, editor, paths, nav_html, soup, all_paths, selection >>
    /\ UNCHANGED notTreeVars

\* MenuEditorApp.remove_selected
remove_selected ==
    /\ editor = "open"
    /\ IF selection = << >>
       THEN /\ dialog' = MessageBox("Info", "Select a node to remove.")
            /\ callback_error' = ""
            /\ UNCHANGED << tree_data, tk_tree, selection >>
       ELSE LET path == get_tree_path(tk_tree, selection)
                parent == SubSeq(path, 1, Len(path) - 1)
            IN  \E ok \in BOOLEAN :
                  /\ dialog' = [MessageBox("Confirm", "Remove category path") EXCEPT
                                  !.answer = IF ok THEN "ok" ELSE "cancel"]
                  /\ IF ~ok
                     THEN /\ callback_error' = ""
                          /\ UNCHANGED << tree_data, tk_tree, selection >>
                     ELSE IF \/ ~HasPath(tree_data, parent)
                             \/ KeyIndex(ChildrenAt(tree_data, parent), path[Len(path)]) = 0
                     THEN /\ callback_error' = "KeyError"
                          /\ UNCHANGED << tree_data, tk_tree, selection >>
                     ELSE /\ callback_error' = ""
                          /\ tree_data' = DelChild(tree_data, path)
                          /\ tk_tree' = DeleteItem(tk_tree, selection)
                          /\ selection' = << >>
    /\ UNCHANGED << paths_file, editor, paths, nav_html, soup, all_paths >>
    /\ UNCHANGED notTreeVars

EditorNext ==
    \/ StartEditor
    \/ SelectItem
    \/ add_parent
    \/ add_child
    \/ edit_alias
    \/ remove_selected

(***************************************************************************)
(* Decoding one file name                                                  *)
(***************************************************************************)

\* the most "_"-separated segments of a generated file name
MaxSegments == 5

SegWord == << "a" >>
SegInt == << "7" >>
SegDecimal == << "2", ".", "5" >>
SegHyphen == << "x", "-", "y" >>

SegPool == { SegWord, SegInt, SegDecimal, SegHyphen }

ExtPng == << ".", "p", "n", "g" >>

\* the two file names of the specification's examples, without extension
ExampleAtari ==
    << "v","i","d","e","o","-","g","a","m","e","s","_","a","t","a","r","i","_",
       "A","t","a","r","i","-","2","6","0","0","_","8","9",".","9","9" >>
ExampleToys ==
    << "t","o","y","s","_","M","e","g","a","-","M","a","n","-","F","i","g","u","r","e","_",
       "2","4",".","5","_","s","e","a","l","e","d","-","i","n","-","b","o","x" >>

\* a file name with a folder: x-y/a_7.png
InFolder == SegHyphen \o << "/" >> \o SegWord \o << "_" >> \o SegInt \o ExtPng

FilePool ==
    { Join(segs, "_") \o ext :
        segs \in SeqsUpTo(SegPool, MaxSegments) \ { << >> },
        ext \in { << >>, ExtPng } }
    \cup { ExampleAtari, ExampleToys, ExampleAtari \o ExtPng, ExampleToys \o ExtPng }
    \cup { InFolder }

NotParsed == [done |-> FALSE, result |-> ParseError("", << >>)]

NotGrouped == [done |-> FALSE, raised |-> FALSE, products |-> << >>, printed |-> << >>]

FileIdle ==
    /\ filename = << >>
    /\ parsed = NotParsed
    /\ images = << >>
    /\ grouped = NotGrouped

FileInit ==
    /\ filename \in FilePool
    /\ parsed = NotParsed
    /\ images = << >>
    /\ grouped = NotGrouped

\* one call parse_image_filename(filename), as group_images_by_handle makes
\* it for an image
ParseFile ==
    /\ ~parsed.done
    /\ parsed' = [done |-> TRUE, result |-> parse_image_filename(filename)]
    /\ UNCHANGED << filename, images, grouped >>
    /\ UNCHANGED notFileVars

FileNext == ParseFile

(***************************************************************************)
(* A batch of images given to group_images_by_handle                       *)
(***************************************************************************)

MaxImages == 3

\* the folder part of the URL of an uploaded image
UrlFolder == << "u", "/" >>

BatchPool ==
    { FileN549, FileN5766, FilePlainPng, FilePlainJpg, FileShort, FileNoPrice }

BatchInit ==
    /\ images \in SeqsUpTo({ [url |-> UrlFolder \o f] : f \in BatchPool }, MaxImages)
    /\ grouped = NotGrouped
    /\ filename = << >>
    /\ parsed = NotParsed

\* one call group_images_by_handle(images), the description service
\* answering every request or failing at one
GroupImages ==
    /\ ~grouped.done
    /\ \E fail_at \in 0..Len(images) :
         \E r \in { group_images_by_handle(images, fail_at) } :
            grouped' = [done |-> TRUE, raised |-> r.raised, products |-> r.products,
                        printed |-> r.printed]
    /\ UNCHANGED << images, filename, parsed >>
    /\ UNCHANGED notFileVars

BatchNext == GroupImages

(***************************************************************************)
(* The filename suggester                                                  *)
(***************************************************************************)

SuggestPool ==
    { << KeyA >>, << KeyA, KeyB >>, << KeyA, KeyBlank >>, << KeyB, KeyA >>,
      << KeyBlank, KeyA >>, << KeyA, KeyBlank, KeyB >> }

TitlePool == { << >>, << "A", "b", " ", "C" >> }
PricePool == { << >>, << "2", ".", "5" >> }
NotesPool == { << >>, << "n", " ", "b" >>, << "7" >> }

SuggestIdle ==
    /\ valid_paths = << >>
    /\ selected_cats = << >>
    /\ dropdown_vars = << >>
    /\ dropdown_widgets = << >>
    /\ title_var = << >>
    /\ price_var = << >>
    /\ notes_var = << >>
    /\ preview_var = << >>
    /\ clipboard = << >>

\* FilenameSuggester.__init__: empty fields, then
\* build_cascading_dropdowns([])
SuggestInit ==
    /\ valid_paths \in SeqsUpTo(SuggestPool, MaxPaths)
    /\ LET c == Cascade(valid_paths, << >>, << >>, << >>)
       IN  /\ dropdown_widgets = c.widgets
           /\ dropdown_vars = c.dvars
           /\ selected_cats = c.selected_cats
    /\ title_var = << >>
    /\ price_var = << >>
    /\ notes_var = << >>
    /\ preview_var = << >>
    /\ clipboard = << >>

\* the user picks value v in dropdown i: the combobox writes v to its
\* variable and on_select rebuilds the dropdowns after it
on_select(i, v) ==
    LET new_path == Append(dropdown_widgets[i].selected_path, v)
        c == Cascade(valid_paths, dropdown_widgets,
                     [dropdown_vars EXCEPT ![i] = v], new_path)
    IN  /\ dropdown_widgets' = c.widgets
        /\ dropdown_vars' = c.dvars
        /\ selected_cats' = c.selected_cats
        /\ preview_var' = Preview(c.dvars, title_var, price_var, notes_var)
        /\ UNCHANGED << valid_paths, title_var, price_var, notes_var, clipboard >>
        /\ UNCHANGED notSuggestVars

Select ==
    \E i \in DOMAIN dropdown_widgets :
        \E v \in Range(dropdown_widgets[i].values) : on_select(i, v)

\* the user edits a field; its write trace calls update_preview
EditTitle ==
    \E t \in TitlePool :
        /\ title_var' = t
        /\ preview_var' = Preview(dropdown_vars, t, price_var, notes_var)
        /\ UNCHANGED << valid_paths, selected_cats, dropdown_vars, dropdown_widgets,
                        price_var, notes_var, clipboard >>
        /\ UNCHANGED notSuggestVars

EditPrice ==
    \E t \in PricePool :
        /\ price_var' = t
        /\ preview_var' = Preview(dropdown_vars, title_var, t, notes_var)
        /\ UNCHANGED << valid_paths, selected_cats, dropdown_vars, dropdown_widgets,
                        title_var, notes_var, clipboard >>
        /\ UNCHANGED notSuggestVars

EditNotes ==
    \E t \in NotesPool :
        /\ notes_var' = t
        /\ preview_var' = Preview(dropdown_vars, title_var, price_var, t)
        /\ UNCHANGED << valid_paths, selected_cats, dropdown_vars, dropdown_widgets,
                        title_var, price_var, clipboard >>
        /\ UNCHANGED notSuggestVars

\* the Copy Filename button; with no file name it only warns
copy_to_clipboard ==
    /\ clipboard' = IF preview_var # << >> THEN preview_var ELSE clipboard
    /\ UNCHANGED << valid_paths, selected_cats, dropdown_vars, dropdown_widgets,
                    title_var, price_var, notes_var, preview_var >>
    /\ UNCHANGED notSuggestVars

SuggestNext ==
    \/ Select
    \/ EditTitle
    \/ EditPrice
    \/ EditNotes
    \/ copy_to_clipboard

(***************************************************************************)
(* The variant-id backfill                                                 *)
(***************************************************************************)

\* the most records in products.js and the most products in the shop
MaxLocal == 2
MaxProducts == 2

\* the requests of one run that the model follows
MaxPages == 3

\* params = {"limit": 250}
PageLimit == 250

NameA == << "A" >>
NameAPadded == << "A", " " >>
NameB == << "B" >>

LocalPool ==
    { [id |-> << "p", "1" >>, name |-> NameA, price |-> << "2", ".", "5" >>,
       shopifyVariantId |-> << >>],
      [id |-> << "p", "2" >>, name |-> NameAPadded, price |-> << "2", ".", "5", "0" >>,
       shopifyVariantId |-> << "9" >>],
      [id |-> << "p", "3" >>, name |-> NameB, price |-> << "7" >>,
       shopifyVariantId |-> << "9" >>],
      [id |-> << "p", "4" >>, name |-> NameA, price |-> << "x" >>,
       shopifyVariantId |-> << >>],
      [id |-> << "p", "5" >>, price |-> << "7" >>, shopifyVariantId |-> << >>] }

CatalogPool ==
    { [title |-> NameA,
       variants |-> << [price |-> << "2", ".", "5", "0" >>, id |-> 1],
                       [price |-> << "2", ".", "5" >>, id |-> 2] >>],
      [title |-> << " ", "A" >>,
       variants |-> << [price |-> << "2", ".", "5" >>, id |-> 3] >>],
      [title |-> NameB,
       variants |-> << [price |-> << "7", ".", "0", "0" >>, id |-> 4],
                       [price |-> << "8" >>, id |-> 5] >>],
      [title |-> NameA, variants |-> << >>] }

NoProductsJs == [exists |-> FALSE, array |-> FALSE, products |-> << >>]

\* a products.js in which no "[" ... "]" is found
BrokenProductsJs == [exists |-> TRUE, array |-> FALSE, products |-> << >>]

BackfillIdle ==
    /\ products_js = NoProductsJs
    /\ catalog = << >>
    /\ run_btn = "normal"
    /\ pc = "idle"
    /\ page = 1
    /\ products = << >>
    /\ shopify_products = << >>
    /\ shopify_map = EmptyMap
    /\ updated = 0
    /\ not_found = << >>
    /\ log = << >>

BackfillInit ==
    /\ products_js \in
          { NoProductsJs, BrokenProductsJs }
          \cup { [exists |-> TRUE, array |-> TRUE, products |-> l] :
                    l \in SeqsUpTo(LocalPool, MaxLocal) }
    /\ catalog \in SeqsUpTo(CatalogPool, MaxProducts)
    /\ run_btn = "normal"
    /\ pc = "idle"
    /\ page = 1
    /\ products = << >>
    /\ shopify_products = << >>
    /\ shopify_map = EmptyMap
    /\ updated = 0
    /\ not_found = << >>
    /\ log = << >>

\* log_msg: one line of the log window, the text and what is formatted into it
Line(msg, arg) == [msg |-> msg, arg |-> arg]

\* a variant of run_backfill that leaves the button as it is
run_backfill_ButtonLeft ==
    /\ run_btn = "normal"
    /\ run_btn' = run_btn
    /\ log' = << >>
    /\ pc' = "load"
    /\ UNCHANGED << products_js, catalog, page, products, shopify_products,
                    shopify_map, updated, not_found >>
    /\ UNCHANGED notBackfillVars

\* the Run Backfill button, both credentials filled in: the log is
\* cleared, the button disabled and the worker thread started
run_backfill ==
    /\ run_btn = "normal"
    /\ run_btn' = "disabled"
    /\ log' = << >>
    /\ pc' = "load"
    /\ UNCHANGED << products_js, catalog, page, products, shopify_products,
                    shopify_map, updated, not_found >>
    /\ UNCHANGED notBackfillVars

\* _backfill: products.js is missing; the worker logs it and returns
BackfillNoFile ==
    /\ pc = "load"
    /\ ~products_js.exists
    /\ log' = Append(log, Line("Error: 'products.js' not found in this folder.", << >>))
    /\ pc' = "finally"
    /\ UNCHANGED << products_js, catalog, run_btn, page, products, shopify_products,
                    shopify_map, updated, not_found >>
    /\ UNCHANGED notBackfillVars

\* _backfill: load_products_js raises, no JSON array in the file
BackfillLoadFails ==
    /\ pc = "load"
    /\ products_js.exists
    /\ ~products_js.array
    /\ log' = log \o << Line("Loading products.js...", << >>),
                        Line("Error", << >>) >>
    /\ pc' = "finally"
    /\ UNCHANGED << products_js, catalog, run_btn, page, products, shopify_products,
                    shopify_map, updated, not_found >>
    /\ UNCHANGED notBackfillVars

\* _backfill: load_products_js, then get_all_shopify_products is entered
BackfillLoad ==
    /\ pc = "load"
    /\ products_js.exists
    /\ products_js.array
    /\ products' = products_js.products
    /\ shopify_products' = << >>
    /\ page' = 1
    /\ log' = log \o << Line("Loading products.js...", << >>),
                        Line("Loaded", DecimalStr(Len(products_js.products))),
                        Line("Fetching all Shopify products...", << >>) >>
    /\ pc' = "fetch"
    /\ UNCHANGED << products_js, catalog, run_btn, shopify_map, updated, not_found >>
    /\ UNCHANGED notBackfillVars

\* get_all_shopify_products: one request with limit=250 and its answer,
\* the first products of the shop (no request names a page); the loop
\* ends on a short page
FetchPage ==
    /\ pc = "fetch"
    /\ page <= MaxPages
    /\ LET batch == Take(catalog, PageLimit)
           fetching == Append(log, Line("Fetching page", DecimalStr(page)))
       IN  /\ shopify_products' = shopify_products \o batch
           /\ IF Len(batch) < PageLimit
              THEN /\ pc' = "match"
                   /\ page' = page
                   /\ log' = fetching
                             \o << Line("Fetched", DecimalStr(Len(shopify_products'))),
                                   Line("Matching and backfilling Variant IDs...", << >>) >>
              ELSE /\ pc' = "fetch"
                   /\ page' = page + 1
                   /\ log' = fetching
    /\ UNCHANGED << products_js, catalog, run_btn, products, shopify_map,
                    updated, not_found >>
    /\ UNCHANGED notBackfillVars

\* get_all_shopify_products: requests.get or resp.json() raises; the
\* exception is logged by _backfill and the worker leaves through "finally"
FetchRaises ==
    /\ pc = "fetch"
    /\ log' = log \o << Line("Fetching page", DecimalStr(page)), Line("Error", << >>) >>
    /\ pc' = "finally"
    /\ UNCHANGED << products_js, catalog, run_btn, page, products, shopify_products,
                    shopify_map, updated, not_found >>
    /\ UNCHANGED notBackfillVars

\* get_all_shopify_products: the answer has no "products"; the error is
\* logged and what was fetched so far is returned
FetchError ==
    /\ pc = "fetch"
    /\ pc' = "match"
    /\ log' = log \o << Line("Fetching page", DecimalStr(page)),
                        Line("Error fetching products", << >>),
                        Line("Fetched", DecimalStr(Len(shopify_products))),
                        Line("Matching and backfilling Variant IDs...", << >>) >>
    /\ UNCHANGED << products_js, catalog, run_btn, page, products, shopify_products,
                    shopify_map, updated, not_found >>
    /\ UNCHANGED notBackfillVars

\* _backfill: the index is built and every local record looked up
BackfillMatch ==
    /\ pc = "match"
    /\ ~BadVariantPrice(shopify_products)
    /\ FirstBadLocal(products) = 0
    /\ shopify_map' = MapProducts(EmptyMap, shopify_products)
    /\ LET res == MatchLoop(shopify_map', products,
                            [products |-> << >>, updated |-> 0, not_found |-> << >>])
       IN  /\ products' = res.products
           /\ updated' = res.updated
           /\ not_found' = res.not_found
    /\ pc' = "write"
    /\ UNCHANGED << products_js, catalog, run_btn, page, shopify_products, log >>
    /\ UNCHANGED notBackfillVars

\* a variant of BackfillMatchFails in which the error is passed over and
\* the run goes on to its write
BackfillMatchFails_GoesOn ==
    /\ pc = "match"
    /\ BadVariantPrice(shopify_products) \/ FirstBadLocal(products) # 0
    /\ log' = Append(log, Line("Error", << >>))
    /\ pc' = "write"
    /\ UNCHANGED << products_js, catalog, run_btn, page, products, shopify_products,
                    shopify_map, updated, not_found >>
    /\ UNCHANGED notBackfillVars

\* _backfill: the match raises, on the price of a variant while the index is
\* built or on a local record in the loop over them, whose earlier records
\* are then already handled in memory; the exception is logged and the
\* worker leaves through "finally" with nothing written
BackfillMatchFails ==
    /\ pc = "match"
    /\ BadVariantPrice(shopify_products) \/ FirstBadLocal(products) # 0
    /\ IF BadVariantPrice(shopify_products)
       THEN UNCHANGED << products, shopify_map, updated, not_found >>
       ELSE /\ shopify_map' = MapProducts(EmptyMap, shopify_products)
            /\ \E k \in { FirstBadLocal(products) } :
                 \E res \in { MatchLoop(shopify_map', SubSeq(products, 1, k - 1),
                                         [products |-> << >>, updated |-> 0,
                                          not_found |-> << >>]) } :
                    /\ products' = res.products \o SubSeq(products, k, Len(products))
                    /\ updated' = res.updated
                    /\ not_found' = res.not_found
    /\ log' = Append(log, Line("Error", << >>))
    /\ pc' = "finally"
    /\ UNCHANGED << products_js, catalog, run_btn, page, shopify_products >>
    /\ UNCHANGED notBackfillVars

\* _backfill: write_products_js and the report
BackfillWrite ==
    /\ pc = "write"
    /\ products_js' = [exists |-> TRUE, array |-> TRUE, products |-> products]
    /\ log' = log
               \o << Line("Updated", DecimalStr(updated)) >>
               \o (IF not_found # << >>
                   THEN << Line("WARNING: could not be matched",
                                DecimalStr(Len(not_found))) >>
                        \o UnmatchedLines(not_found)
                   ELSE << Line("All products matched successfully!", << >>) >>)
               \o << Line("Done", << >>) >>
    /\ pc' = "finally"
    /\ UNCHANGED << catalog, run_btn, page, products, shopify_products, shopify_map,
                    updated, not_found >>
    /\ UNCHANGED notBackfillVars

\* _backfill: finally, the button is enabled again; the thread ends and
\* its locals with it
BackfillFinally ==
    /\ pc = "finally"
    /\ run_btn' = "normal"
    /\ pc' = "idle"
    /\ page' = 1
    /\ products' = << >>
    /\ shopify_products' = << >>
    /\ shopify_map' = EmptyMap
    /\ updated' = 0
    /\ not_found' = << >>
    /\ UNCHANGED << products_js, catalog, log >>
    /\ UNCHANGED notBackfillVars

\* catalogs of one product short of a full page, a full page, and one more
LargeCatalogs ==
    { [ i \in 1..n |-> [title |-> NameB, variants |-> << >>] ] :
        n \in { PageLimit - 1, PageLimit, PageLimit + 1 } }

FetchInit ==
    /\ products_js \in
          { NoProductsJs, BrokenProductsJs }
          \cup { [exists |-> TRUE, array |-> TRUE, products |-> l] :
                    l \in SeqsUpTo(LocalPool, MaxLocal) }
    /\ catalog \in SeqsUpTo(CatalogPool, 1) \cup LargeCatalogs
    /\ run_btn = "normal"
    /\ pc = "idle"
    /\ page = 1
    /\ products = << >>
    /\ shopify_products = << >>
    /\ shopify_map = EmptyMap
    /\ updated = 0
    /\ not_found = << >>
    /\ log = << >>

BackfillNext ==
    \/ run_backfill
    \/ BackfillNoFile
    \/ BackfillLoadFails
    \/ BackfillLoad
    \/ FetchPage
    \/ FetchError
    \/ FetchRaises
    \/ BackfillMatch
    \/ BackfillMatchFails
    \/ BackfillWrite
    \/ BackfillFinally

(***************************************************************************)
(* Specifications: one per tool, the other tools idle                      *)
(***************************************************************************)

InitTree == TreeInit /\ FileIdle /\ SuggestIdle /\ BackfillIdle
SpecTree == InitTree /\ [][TreeNext]_vars

InitFile == FileInit /\ TreeIdle /\ SuggestIdle /\ BackfillIdle
SpecFile == InitFile /\ [][FileNext]_vars

InitSuggest == SuggestInit /\ TreeIdle /\ FileIdle /\ BackfillIdle
SpecSuggest == InitSuggest /\ [][SuggestNext]_vars

InitBackfill == BackfillInit /\ TreeIdle /\ FileIdle /\ SuggestIdle
SpecBackfill == InitBackfill /\ [][BackfillNext]_vars

InitImport == ImportInit /\ FileIdle /\ SuggestIdle /\ BackfillIdle
SpecImport == InitImport /\ [][ImportNext]_vars

InitExtract == ExtractInit /\ FileIdle /\ SuggestIdle /\ BackfillIdle
SpecExtract == InitExtract /\ [][ExtractNext]_vars

InitEditor == EditorInit /\ FileIdle /\ SuggestIdle /\ BackfillIdle
SpecEditor == InitEditor /\ [][EditorNext]_vars

\* the backfill with a fetch loop that goes on while it can, the server
\* answering its requests
InitFetch == FetchInit /\ TreeIdle /\ FileIdle /\ SuggestIdle
SpecFetch == InitFetch /\ [][BackfillNext]_vars /\ WF_vars(FetchPage)

InitBatch == BatchInit /\ TreeIdle /\ SuggestIdle /\ BackfillIdle
SpecBatch == InitBatch /\ [][BatchNext]_vars

(***************************************************************************)
(* Properties of the category pipeline                                     *)
(***************************************************************************)

IsPrefix(p, q) == Len(p) <= Len(q) /\ SubSeq(q, 1, Len(p)) = p

\* no path of the list is a proper prefix of another one
PrefixFree(P) ==
    \A p \in Range(P) : \A q \in Range(P) : IsPrefix(p, q) => p = q

\* a path without its blank (catch-all) segments
RECURSIVE NonBlank(_)
NonBlank(p) ==
    IF p = << >> THEN << >>
    ELSE (IF Head(p) # << >> THEN << Head(p) >> ELSE << >>) \o NonBlank(Tail(p))

\* the levels whose link parameters category, subcategory1 .. subcategory9
\* carry a number of at most one digit
MaxSortedLevels == Len(DigitChars)

\* C1 as stated: for every non-empty list P of valid category paths,
\* flatten_tree(build_tree(P)) has the same set of paths as P.
C1_RoundTripAnyList ==
    (editor = "open" /\ paths # << >>)
        => Range(flatten_tree(tree_data)) = Range(paths)

\* C1 amended: for every non-empty list P of valid category paths in which
\* no path is a proper prefix of another, flatten_tree(build_tree(P)) has
\* the same set of paths as P.
C1_RoundTripPrefixFree ==
    (editor = "open" /\ paths # << >> /\ PrefixFree(paths))
        => Range(flatten_tree(tree_data)) = Range(paths)

\* a tree built from two different paths that share their first key, and
\* from a path with a blank key
C1_Witness ==
    /\ editor = "open"
    /\ PrefixFree(paths)
    /\ \E i, j \in DOMAIN paths :
          /\ paths[i] # paths[j]
          /\ Len(paths[i]) > 1 /\ Len(paths[j]) > 1
          /\ paths[i][1] = paths[j][1]
          /\ KeyBlank \in Range(paths[j])
    /\ Len(tree_data) = 1
    /\ Len(tree_data[1].children) = 2

\* the extractor has parsed the markup exported from the tree now loaded
ExtractedFromTree ==
    /\ editor = "open"
    /\ soup.parsed
    /\ soup.ul = build_nav_html(tree_data)

StemParts(f) == Split(SplitExtRoot(BaseName(f)), "_")

\* the positions (from 1) after the first whose segment parses as a number
NumericAfterFirst(parts) == { i \in 2..Len(parts) : IsFloat(parts[i]) }

SetMax(S) == CHOOSE x \in S : \A y \in S : y <= x

\* C4: for every file name of at least four segments, the price is the
\* right-most segment, the first one excepted, that parses as a number:
\* the title is the segment before it and the categories are the ones
\* before the title; and the call fails with the no-price error exactly
\* when no segment after the first parses as a number.
C4_RightmostPrice ==
    (parsed.done /\ Len(StemParts(filename)) >= 4)
        => LET parts == StemParts(filename)
               numeric == NumericAfterFirst(parts)
               r == parsed.result
           IN  /\ (numeric = {}) <=> (~r.ok /\ r.error = "No valid price found")
               /\ numeric # {} =>
                    /\ r.ok
                    /\ r.value.price = ParseFloat(parts[SetMax(numeric)])
                    /\ Len(r.value.categories) = SetMax(numeric) - 2
                    /\ r.value.title
                         = Title(ReplaceChar(parts[SetMax(numeric) - 1], "-", " "))

\* a decoded name with two numeric segments after the first, the left one
\* not taken
C4_Witness ==
    /\ parsed.done /\ parsed.result.ok
    /\ Len(StemParts(filename)) >= 4
    /\ Cardinality(NumericAfterFirst(StemParts(filename))) >= 2
    /\ \E i, j \in NumericAfterFirst(StemParts(filename)) :
          /\ i < j
          /\ ParseFloat(StemParts(filename)[i]) # ParseFloat(StemParts(filename)[j])
    /\ IsFloat(StemParts(filename)[1])

StrVideoGames == << "v","i","d","e","o","-","g","a","m","e","s" >>
StrAtari == << "a","t","a","r","i" >>
StrAtari2600 == << "A","t","a","r","i"," ","2","6","0","0" >>
StrToys == << "t","o","y","s" >>
StrMegaManFigure == << "M","e","g","a"," ","M","a","n"," ","F","i","g","u","r","e" >>
StrSealedInBox == << "s","e","a","l","e","d"," ","i","n"," ","b","o","x" >>

\* C5: decoding "video-games_atari_Atari-2600_89.99" gives the categories
\* video-games, atari, the title "Atari 2600", the price 89.99 and no
\* notes; decoding "toys_Mega-Man-Figure_24.5_sealed-in-box" gives the
\* category toys, the title "Mega Man Figure", the price 24.5 and the notes
\* "sealed in box".
C5_SpecExamples ==
    /\ (parsed.done /\ filename = ExampleAtari) =>
          /\ parsed.result.ok
          /\ parsed.result.value.categories = << StrVideoGames, StrAtari >>
          /\ parsed.result.value.title = StrAtari2600
          /\ parsed.result.value.price = Normalise(8999, 0 - 2)
          /\ parsed.result.value.extra_notes = << >>
    /\ (parsed.done /\ filename = ExampleToys) =>
          /\ parsed.result.ok
          /\ parsed.result.value.categories = << StrToys >>
          /\ parsed.result.value.title = StrMegaManFigure
          /\ parsed.result.value.price = Normalise(245, 0 - 1)
          /\ parsed.result.value.extra_notes = StrSealedInBox

(***************************************************************************)
(* Properties of the filename suggester                                    *)
(***************************************************************************)

\* the segments that follow prefix P in the canonical paths that start
\* with P and are longer
NextSegments(P) ==
    { q[Len(P) + 1] :
        q \in { r \in Range(valid_paths) : Len(r) > Len(P) /\ IsPrefix(P, r) } }

\* C6: for every selected prefix P, the dropdown after it offers exactly
\* the distinct segments that follow P in the canonical paths starting with
\* P (there is no such dropdown when there are none), and when there are
\* none P is a complete canonical path.
C6_CascadingOptions ==
    /\ \A i \in DOMAIN dropdown_widgets :
          /\ dropdown_widgets[i].selected_path = Take(selected_cats, i - 1)
          /\ Range(dropdown_widgets[i].values)
                = NextSegments(Take(selected_cats, i - 1))
          /\ Cardinality(Range(dropdown_widgets[i].values))
                = Len(dropdown_widgets[i].values)
          /\ dropdown_widgets[i].values # << >>
    /\ Len(dropdown_widgets) =
          IF NextSegments(selected_cats) # {}
          THEN Len(selected_cats) + 1 ELSE Len(selected_cats)
    /\ (selected_cats # << >> /\ NextSegments(selected_cats) = {})
          => selected_cats \in Range(valid_paths)

\* two levels selected out of two canonical paths, the second level out of
\* two options, and nothing left to select
C6_Witness ==
    /\ Len(selected_cats) = 2
    /\ NextSegments(selected_cats) = {}
    /\ Len(dropdown_widgets) = 2
    /\ Len(dropdown_widgets[2].values) = 2
    /\ Cardinality(Range(valid_paths)) = 2

\* C7: the category path of a non-empty suggested file name is always one
\* of the canonical paths.
C7_PreviewPathCanonical ==
    preview_var # << >>
        => get_selected_cat_path(dropdown_vars) \in Range(valid_paths)

\* price_var reads as a number that is not negative
NonNegativePrice(text) ==
    ParseFloat(text).kind = "num" /\ ParseFloat(text).m >= 0

\* C3: for a selected category path of at least one segment, a non-empty
\* title and a non-negative price, with or without notes, decoding the
\* suggested file name gives back the category path, the title and the
\* price.
C3_FilenameRoundTrip ==
    (/\ preview_var # << >>
     /\ title_var # << >>
     /\ NonNegativePrice(price_var))
        => LET r == parse_image_filename(preview_var)
           IN  /\ r.ok
               /\ r.value.categories = get_selected_cat_path(dropdown_vars)
               /\ r.value.title = title_var
               /\ r.value.price = ParseFloat(price_var)

(***************************************************************************)
(* The variant-id backfill: properties                                     *)
(***************************************************************************)

\* the key of a local record
LocalKey(p) == << Strip(p.name), ParseFloat(p.price) >>

\* the variants of the fetched products in fetch order, each with its key
\* and the index of its product
RECURSIVE FetchOrderFrom(_, _)
FetchOrderFrom(prods, n) ==
    IF n > Len(prods) THEN << >>
    ELSE [ j \in DOMAIN prods[n].variants |->
             [key |-> << Strip(prods[n].title), ParseFloat(prods[n].variants[j].price) >>,
              id |-> prods[n].variants[j].id,
              product |-> n] ]
         \o FetchOrderFrom(prods, n + 1)

FetchOrder(prods) == FetchOrderFrom(prods, 1)

\* the indices of the local records whose key is in the index
Matched(m, recs) == { i \in DOMAIN recs : LocalKey(recs[i]) \in DOMAIN m }

\* the ids of the local records whose key is not in the index, in order
RECURSIVE UnmatchedIds(_, _)
UnmatchedIds(m, recs) ==
    IF recs = << >> THEN << >>
    ELSE (IF LocalKey(Head(recs)) \in DOMAIN m THEN << >> ELSE << Head(recs).id >>)
         \o UnmatchedIds(m, Tail(recs))

\* the run got as far as its report
Reported == pc = "finally" /\ log # << >> /\ log[Len(log)].msg = "Done"

\* the ids on the "  - id" lines of the log, in order
RECURSIVE ReportedIds(_)
ReportedIds(lines) ==
    IF lines = << >> THEN << >>
    ELSE (IF Head(lines).msg = "unmatched" THEN << Head(lines).arg >> ELSE << >>)
         \o ReportedIds(Tail(lines))

\* C8: once the match loop of a run is through, every local record was
\* handled exactly one way: a record whose key is in the index carries the
\* indexed id and is counted in updated, any other record has its id in
\* not_found; updated + the number of ids in not_found is the number of
\* local records; and the report of the run lists every id of not_found.
C8_EveryRecordHandled ==
    /\ pc = "write" =>
         LET old == products_js.products
         IN  /\ Len(products) = Len(old)
             /\ \A i \in Matched(shopify_map, old) :
                    products[i].shopifyVariantId = shopify_map[LocalKey(old[i])]
             /\ updated = Cardinality(Matched(shopify_map, old))
             /\ not_found = UnmatchedIds(shopify_map, old)
             /\ updated + Len(not_found) = Len(old)
    /\ Reported =>
         /\ ReportedIds(log) = not_found
         /\ updated + Len(not_found) = Len(products)
         /\ \E i \in DOMAIN log : log[i] = Line("Updated", DecimalStr(updated))

\* a run has reported both a matched and an unmatched record
C8_Witness ==
    /\ Reported
    /\ updated >= 1
    /\ Len(not_found) >= 1
    /\ ReportedIds(log) # << >>

\* one step of the backfill as C9 wants it
C9_FrameStep ==
    /\ catalog' = catalog
    /\ products_js' # products_js =>
         LET old == products_js.products
             new == products_js'.products
         IN  /\ products_js.exists /\ products_js'.exists
             /\ Len(new) = Len(old)
             /\ \A i \in DOMAIN old :
                  /\ new[i] = [old[i] EXCEPT !.shopifyVariantId = new[i].shopifyVariantId]
                  /\ i \notin Matched(shopify_map, old) => new[i] = old[i]

\* C9: no step of a backfill run changes the catalog of the shop, and a
\* step that changes products.js keeps the records and their order, changes
\* no field but shopifyVariantId, and changes nothing in a record whose key
\* is not in the index, an earlier shopifyVariantId included.
C9_LocalRecordsKept == [][C9_FrameStep]_vars

\* products.js was written with a record that got a new id and with an
\* unmatched record that still carries its earlier id
C9_Witness ==
    /\ Reported
    /\ products_js.products = products
    /\ \E i \in DOMAIN products :
         /\ i \notin Matched(shopify_map, products)
         /\ products[i].shopifyVariantId = << "9" >>
    /\ \E j \in Matched(shopify_map, products) :
         products[j].shopifyVariantId \notin { << >>, << "9" >> }

\* the place in fetch order of the last variant with the key k
LastWithKey(flat, k) ==
    CHOOSE b \in DOMAIN flat :
        /\ flat[b].key = k
        /\ \A c \in DOMAIN flat : flat[c].key = k => c <= b

\* C10: when variants of the fetched products share a key, the index
\* holds for that key the id of the variant that is last in fetch order,
\* and every local record with that key carries that id.
C10_LaterVariantWins ==
    pc = "write" =>
        LET flat == FetchOrder(shopify_products)
        IN  \A a \in DOMAIN flat :
               LET k == flat[a].key
                   last == DecimalStr(flat[LastWithKey(flat, k)].id)
               IN  /\ k \in DOMAIN shopify_map
                   /\ shopify_map[k] = last
                   /\ \A i \in DOMAIN products :
                        LocalKey(products[i]) = k =>
                            products[i].shopifyVariantId = last

\* two variants of one product and a variant of another product share the
\* key of a local record
C10_Witness ==
    /\ pc = "write"
    /\ LET flat == FetchOrder(shopify_products)
       IN  \E a, b, c \in DOMAIN flat :
             /\ a < b /\ b < c
             /\ flat[a].key = flat[b].key /\ flat[b].key = flat[c].key
             /\ flat[a].product = flat[b].product
             /\ flat[b].product # flat[c].product
             /\ flat[a].id # flat[c].id /\ flat[b].id # flat[c].id
             /\ \E i \in DOMAIN products : LocalKey(products[i]) = flat[a].key

(***************************************************************************)
(* The interactive editor: properties                                      *)
(***************************************************************************)

AddTitles == { "Add Parent", "Add Child" }

DuplicateKeyMessage == "Key already exists at this level."

\* this step is add_parent or add_child with its dialog shown: the dialog
\* of an add is the last one and the step left a trace in it or in the tree
AddStep ==
    /\ dialog'.title \in AddTitles
    /\ dialog' # dialog \/ tree_data' # tree_data

\* the keys among which the added node is put
TargetSiblings ==
    IF dialog'.title = "Add Parent" THEN DictKeys(tree_data)
    ELSE DictKeys(ChildrenAt(tree_data, get_tree_path(tk_tree, selection)))

\* every node of old is in new at its place with its key and alias, and
\* so is its whole subtree
RECURSIVE Extends(_, _)
Extends(old, new) ==
    /\ Len(new) >= Len(old)
    /\ \A i \in DOMAIN old :
         /\ new[i].key = old[i].key
         /\ new[i].alias = old[i].alias
         /\ Extends(old[i].children, new[i].children)

\* C11: an add whose (stripped) key is already among the children of the
\* target parent is rejected and the tree stays as it was; and no add
\* replaces or loses a node that is there: after the step every node is at
\* its place with its key, its alias and its whole subtree.
C11_Step ==
    AddStep =>
        /\ Strip(dialog'.key_var) \in TargetSiblings =>
              /\ dialog'.result = << >>
              /\ tree_data' = tree_data
        /\ Extends(tree_data, tree_data')

C11_DuplicateAddRejected == [][C11_Step]_vars

\* an add was refused for its key, and the node that has the key has children
C11_Witness ==
    /\ dialog.title \in AddTitles
    /\ dialog.error = DuplicateKeyMessage
    /\ \E i \in DOMAIN tree_data :
         /\ tree_data[i].key = Strip(dialog.key_var)
         /\ tree_data[i].children # << >>

(***************************************************************************)
(* Bulk import: properties                                                 *)
(***************************************************************************)

\* how often x occurs in seq
Count(seq, x) == Cardinality({ i \in DOMAIN seq : seq[i] = x })

\* p is a proper prefix of another path of the list
ProperPrefixIn(p, list) ==
    \E i \in DOMAIN list : list[i] # p /\ IsPrefix(p, list[i])

\* C12 as stated: the tree built from a list with a repeated path is the
\* tree built from the list without the repetitions, and flattening it
\* yields every repeated path exactly once.
C12_RepeatedPathOnce ==
    editor = "open" =>
        /\ tree_data = build_tree(Dedup(paths))
        /\ \A i \in DOMAIN paths :
             Count(paths, paths[i]) > 1 => Count(flatten_tree(tree_data), paths[i]) = 1

\* C12: the tree built from a list with a repeated path is the tree built
\* from the list without the repetitions; flattening it yields no path
\* twice, and yields a repeated path exactly once unless that path is a
\* proper prefix of another path of the list.
C12_RepeatedPathAtMostOnce ==
    editor = "open" =>
        /\ tree_data = build_tree(Dedup(paths))
        /\ \A i \in DOMAIN paths :
             LET n == Count(flatten_tree(tree_data), paths[i])
             IN  /\ n <= 1
                 /\ ~ProperPrefixIn(paths[i], paths) => n = 1

\* the editor was started on a list that repeats a path among other paths
C12_Witness ==
    /\ editor = "open"
    /\ \E i \in DOMAIN paths :
         /\ Count(paths, paths[i]) > 1
         /\ Count(flatten_tree(tree_data), paths[i]) = 1
    /\ Len(Dedup(paths)) > 1

(***************************************************************************)
(* The extractor: properties                                               *)
(***************************************************************************)

\* the place of the first occurrence of x in seq
FirstOccurrence(seq, x) ==
    CHOOSE i \in DOMAIN seq : seq[i] = x /\ \A j \in 1..(i - 1) : seq[j] # x

\* C13: the list the extractor writes holds every extracted path exactly
\* once, in the order of the paths' first occurrences in the markup.
C13_DedupFirstSeenOrder ==
    soup.parsed =>
        /\ Range(paths_file) = Range(all_paths)
        /\ \A i, j \in DOMAIN paths_file :
             i < j => /\ paths_file[i] # paths_file[j]
                      /\ FirstOccurrence(all_paths, paths_file[i])
                            < FirstOccurrence(all_paths, paths_file[j])

\* links to B, A, B were read and [B, A] written
C13_Witness ==
    /\ soup.parsed
    /\ Len(all_paths) = 3
    /\ all_paths[1] = all_paths[3]
    /\ all_paths[1] # all_paths[2]
    /\ paths_file = << all_paths[1], all_paths[2] >>

\* the level of a parameter: 0 for category, N for subcategoryN
ParamLevel(name) ==
    IF name = ParamCategory THEN 0 ELSE DigitsValue(name.digits)

\* the values of the parameters of a link by increasing level
RECURSIVE LevelOrderFrom(_, _)
LevelOrderFrom(params, level) ==
    IF \A i \in DOMAIN params : ParamLevel(params[i].name) < level THEN << >>
    ELSE [ i \in DOMAIN SelectSeq(params, LAMBDA q : ParamLevel(q.name) = level) |->
             SelectSeq(params, LAMBDA q : ParamLevel(q.name) = level)[i].val ]
         \o LevelOrderFrom(params, level + 1)

LevelOrder(params) == LevelOrderFrom(params, 0)

\* C16: for every category link the extracted path lists the values of
\* the link's parameters in level order: category, then subcategory1,
\* subcategory2, ... by increasing number, whatever their order in the link
\* and however many levels there are.
C16_ExtractedInLevelOrder ==
    soup.parsed =>
        /\ Len(all_paths) = Len(soup.ul)
        /\ \A i \in DOMAIN soup.ul :
             all_paths[i] = LevelOrder(FindAllParams(soup.ul[i].href.query))

(***************************************************************************)
(* Flattening an edited tree                                               *)
(***************************************************************************)

\* C14: for the tree of every state of an editing session (import, adds,
\* alias edits, removals), importing its flattened form and flattening
\* again gives the same paths in the same order.
C14_FlattenIdempotent ==
    editor = "open" =>
        flatten_tree(build_tree(flatten_tree(tree_data))) = flatten_tree(tree_data)

\* an edited tree of three nodes, one below another, whose flattened paths
\* are not in lexical order
C14_Witness ==
    /\ editor = "open"
    /\ tree_data # build_tree(paths)
    /\ NodeCount(tree_data) >= 3
    /\ \E i \in DOMAIN tree_data : tree_data[i].children # << >>
    /\ LET flat == flatten_tree(tree_data)
       IN  \E i, j \in DOMAIN flat : i < j /\ StrLess(flat[j][1], flat[i][1])

(***************************************************************************)
(* The links of the exported markup                                        *)
(***************************************************************************)

\* the queries of the links of a <ul>, in document order
RECURSIVE LeafQueries(_)
LeafQueries(ul) ==
    IF ul = << >> THEN << >>
    ELSE (IF Head(ul).tag = "a" THEN << Head(ul).href.query >>
          ELSE LeafQueries(Head(ul).ul))
         \o LeafQueries(Tail(ul))

\* the query C15 gives the leaf with path p: the non-empty segments, the
\* first as category, the others as subcategory1, subcategory2, ...
ExpectedQuery(p) ==
    LET segs == SelectSeq(p, LAMBDA k : k # << >>)
    IN  [ i \in DOMAIN segs |->
            [name |-> IF i = 1 THEN ParamCategory ELSE ParamSubcategory(i - 1),
             val |-> segs[i]] ]

\* C15: in the exported markup the link of every leaf carries the first
\* non-empty segment of the leaf's path as category and every later
\* non-empty segment as subcategory1, subcategory2, ... numbered from 1
\* without gaps; an empty segment is not in the link and takes no number.
C15_LinkParameters ==
    (editor = "open" /\ nav_html.exists /\ nav_html.ul = build_nav_html(tree_data)) =>
        LET flat == flatten_tree(tree_data)
        IN  LeafQueries(nav_html.ul) = [ i \in DOMAIN flat |-> ExpectedQuery(flat[i]) ]

(***************************************************************************)
(* The decoder: errors and the split of the segments                       *)
(***************************************************************************)

\* C17: for every file name with fewer than 4 "_"-separated segments
\* parse_image_filename raises the "Filename too short" error, returns no
\* descriptor, and the message of the error holds the file name as given.
C17_TooShortRejected ==
    (parsed.done /\ Len(Split(filename, "_")) < 4) =>
        /\ ~parsed.result.ok
        /\ parsed.result.error = "Filename too short"
        /\ parsed.result.quoted = filename
        /\ parsed.result.value = NoDescriptor

\* a name of three segments with a price in it was refused, and the name
\* given is not the stem the segments were counted on
C17_Witness ==
    /\ parsed.done
    /\ Len(Split(filename, "_")) = 3
    /\ \E i \in 2..3 : IsFloat(StemParts(filename)[i])
    /\ SplitExtRoot(BaseName(filename)) # filename
    /\ parsed.result.error = "Filename too short"
    /\ parsed.result.quoted = filename

\* s with a space for every hyphen
HyphensToSpaces(s) == [ n \in DOMAIN s |-> IF s[n] = "-" THEN " " ELSE s[n] ]

\* the segments from the a-th to the b-th with "_" between them
RECURSIVE Underscored(_, _, _)
Underscored(parts, a, b) ==
    IF a > b THEN << >>
    ELSE IF a = b THEN parts[a]
    ELSE parts[a] \o << "_" >> \o Underscored(parts, a + 1, b)

\* C18: when a file name decodes, with the price at segment i (counted
\* from 1 here), the categories are the segments before i-1 in order,
\* possibly none; the title is segment i-1 with hyphens turned to spaces,
\* title-cased; the notes are the segments after i joined by "_" with
\* hyphens turned to spaces, empty when the price is the last segment.
C18_SegmentsSplitInOrder ==
    (parsed.done /\ parsed.result.ok) =>
        LET parts == StemParts(filename)
            i == SetMax(NumericAfterFirst(parts))
            v == parsed.result.value
        IN  /\ v.price = ParseFloat(parts[i])
            /\ v.categories = [ n \in 1..(i - 2) |-> parts[n] ]
            /\ v.title = Title(HyphensToSpaces(parts[i - 1]))
            /\ v.extra_notes = HyphensToSpaces(Underscored(parts, i + 1, Len(parts)))
            /\ i = Len(parts) => v.extra_notes = << >>

\* a name decoded with no category, a hyphenated title and notes of two
\* segments, one of them hyphenated
C18_Witness ==
    /\ parsed.done
    /\ parsed.result.ok
    /\ parsed.result.value.categories = << >>
    /\ " " \in Range(parsed.result.value.title)
    /\ "_" \in Range(parsed.result.value.extra_notes)
    /\ " " \in Range(parsed.result.value.extra_notes)

(***************************************************************************)
(* The handles of a batch                                                  *)
(***************************************************************************)

\* the categories of a product of the batch, as its five fields give them
ProductCategories(p) ==
    << p.category, p.subcategory1, p.subcategory2, p.subcategory3, p.subcategory4 >>

\* C19: in a batch, two images with distinct file names that decode to the
\* same categories, title and price get distinct handles, the same file
\* name gets the same handle each time, and the categories and the title of
\* a product are those of the segments of its name, with no digit of the
\* salt in them.
C19_SaltedHandlesDistinct ==
    grouped.done =>
        \A i, j \in DOMAIN grouped.products :
            LET p == grouped.products[i].js_product
                q == grouped.products[j].js_product
                parts == StemParts(UrlFileName(p.images[1]))
                k == SetMax(NumericAfterFirst(parts))
            IN  /\ ( /\ p.images # q.images
                     /\ ProductCategories(p) = ProductCategories(q)
                     /\ p.name = q.name
                     /\ p.price = q.price ) => p.id # q.id
                /\ p.images = q.images => p.id = q.id
                /\ p.name = Title(HyphensToSpaces(parts[k - 1]))
                /\ \A n \in 1..5 :
                     ProductCategories(p)[n] = IF n <= k - 2 THEN parts[n] ELSE << >>

\* the characters of the class [A-Za-z0-9_-]
UrlSafeChars ==
    (LowerSet \ { "é" }) \cup (UpperSet \ { "É" }) \cup DigitSet \cup { "_", "-" }

\* C20: an add whose key, stripped, is not empty and holds whitespace or a
\* character outside [A-Za-z0-9_-] is refused and the tree stays as it was;
\* an add with the empty key and an alias is not refused for its key.
C20_Step ==
    AddStep =>
        LET key == Strip(dialog'.key_var)
        IN  /\ (key # << >> /\ \E n \in DOMAIN key :
                    IsSpace(key[n]) \/ key[n] \notin UrlSafeChars) =>
                  /\ dialog'.result = << >>
                  /\ tree_data' = tree_data
            /\ key = << >> => dialog'.error # "Key must be URL-safe"

C20_UnsafeKeyRejected == [][C20_Step]_vars

(***************************************************************************)
(* Removal from the tree                                                   *)
(***************************************************************************)

\* this step is remove_selected, confirmed, and it ended without an error
RemovalStep ==
    /\ selection # << >>
    /\ dialog'.title = "Confirm"
    /\ dialog'.answer = "ok"
    /\ callback_error' = ""
    /\ tk_tree' # tk_tree \/ tree_data' # tree_data

\* the tree without the node at path p and what is below it, every other
\* node as it is and where it is
RECURSIVE Without(_, _)
Without(tree, p) ==
    IF Len(p) = 1 THEN SelectSeq(tree, LAMBDA node : node.key # p[1])
    ELSE [ i \in DOMAIN tree |->
            IF tree[i].key = p[1]
            THEN [key |-> tree[i].key, alias |-> tree[i].alias,
                  children |-> Without(tree[i].children, Tail(p))]
            ELSE tree[i] ]

\* C21: after a confirmed removal of the node at path p (the path of the
\* selected item), no flattened path has p as a prefix, and every node
\* outside the subtree of p keeps its key, alias, children and its place
\* among its siblings.
C21_Step ==
    RemovalStep =>
        LET p == get_tree_path(tk_tree, selection)
        IN  /\ HasPath(tree_data, p)
            /\ ~HasPath(tree_data', p)
            /\ \A q \in Range(flatten_tree(tree_data')) : ~IsPrefix(p, q)
            /\ tree_data' = Without(tree_data, p)

C21_RemovalTakesSubtreeOnly == [][C21_Step]_vars

\* a removal was confirmed and done, and nodes are left: a first-level node
\* with a child below it
C21_Witness ==
    /\ dialog.title = "Confirm"
    /\ dialog.answer = "ok"
    /\ callback_error = ""
    /\ selection = << >>
    /\ \E i \in DOMAIN tree_data : tree_data[i].children # << >>

(***************************************************************************)
(* Malformed names in a batch                                              *)
(***************************************************************************)

\* the file name of the URL has four segments or more and a number among
\* those after the first
Decodes(url) ==
    LET parts == StemParts(UrlFileName(url))
    IN  Len(parts) >= 4 /\ NumericAfterFirst(parts) # { }

\* the URLs of the images whose names decode (or those that do not), in
\* the order of the batch
UrlsOf(imgs, decoding) ==
    LET sel == SelectSeq(imgs, LAMBDA img : Decodes(img.url) = decoding)
    IN  [ i \in DOMAIN sel |-> sel[i].url ]

\* C22: when group_images_by_handle returns, its output is one product per
\* image whose file name decodes, in the order of the images, whatever
\* names that do not decode stand between them; each of those gave a
\* printed line and no product; and a call does not end in an exception
\* unless an image of the batch decodes (no malformed name stops it).
C22_MalformedNamesSkipped ==
    grouped.done =>
        /\ ~grouped.raised =>
              /\ [ i \in DOMAIN grouped.products |->
                     grouped.products[i].js_product.images[1] ] = UrlsOf(images, TRUE)
              /\ [ i \in DOMAIN grouped.products |->
                     grouped.products[i].csv_row.Image_Src ] = UrlsOf(images, TRUE)
              /\ [ i \in DOMAIN grouped.printed |->
                     UrlFolder \o grouped.printed[i].filename ] = UrlsOf(images, FALSE)
        /\ grouped.raised => UrlsOf(images, TRUE) # << >>

\* a batch of three was done with a name that does not decode between two
\* that do
C22_Witness ==
    /\ grouped.done
    /\ ~grouped.raised
    /\ Len(images) = 3
    /\ Decodes(images[1].url) /\ ~Decodes(images[2].url) /\ Decodes(images[3].url)
    /\ Len(grouped.products) = 2
    /\ Len(grouped.printed) = 1

(***************************************************************************)
(* The aliases of the nodes                                                *)
(***************************************************************************)

\* the nodes of the tree, at every depth
RECURSIVE Nodes(_)
Nodes(tree) ==
    UNION { { tree[i] } \cup Nodes(tree[i].children) : i \in DOMAIN tree }

HasAlias(node) == node.alias # << >>

\* the alias of the node is its key with a space for every hyphen,
\* title-cased, and "(blank)" for the empty key
HasDefaultAlias(node) ==
    node.alias = IF node.key = << >> THEN << "(", "b", "l", "a", "n", "k", ")" >>
                 ELSE Title(HyphensToSpaces(node.key))

\* paths imported into the tree as it is
FurtherPaths ==
    { << KeyA >>, << KeyA, KeyC >>, << KeyBlank, KeyA >>, << KeyParen, KeyB >>,
      << KeyB >> }

\* C23: in every state of the tree that import, adds, alias edits and
\* removals reach, every node has a non-empty alias; every node of the tree
\* as imported has the default alias of its key; and the import of one more
\* path into the tree leaves every node that is there with its alias, its
\* place and what is below it.
C23_AliasesKept ==
    /\ (\A node \in Nodes(tree_data) : HasAlias(node))
    /\ (\A node \in Nodes(build_tree(paths)) : HasDefaultAlias(node))
    /\ \A p \in FurtherPaths :
         /\ Extends(tree_data, InsertPath(tree_data, p))
         /\ (\A node \in Nodes(InsertPath(tree_data, p)) : HasAlias(node))

\* the tree holds a node whose alias was edited and is not the default one,
\* a node with the default alias, and a further path goes through the edited
\* node to a new child
C23_Witness ==
    /\ editor = "open"
    /\ \E i, j \in DOMAIN tree_data :
         /\ ~HasDefaultAlias(tree_data[i])
         /\ HasDefaultAlias(tree_data[j])
         /\ \E p \in FurtherPaths :
              /\ Len(p) = 2
              /\ p[1] = tree_data[i].key
              /\ InsertPath(tree_data, p) # tree_data

(***************************************************************************)
(* The end of the fetch loop                                               *)
(***************************************************************************)

\* a run that is fetching gets to the end of its fetch loop
FetchLeavesLoop == (pc = "fetch") ~> (pc # "fetch")

\* the requests that page through a catalog: its full pages and the short
\* page that ends the loop
PagesOf(shop_catalog) == Len(shop_catalog) \div PageLimit + 1

\* C24: whatever the size of the catalog, the server answering every
\* request, get_all_shopify_products ends: it asks for page after page
\* until a short one, so it never asks for more pages than the catalog has,
\* and it returns no more products than the catalog holds.
C24_FetchTerminates ==
    /\ pc = "fetch" => page <= PagesOf(catalog)
    /\ Len(shopify_products) <= Len(catalog)

(***************************************************************************)
(* One worker at a time                                                    *)
(***************************************************************************)

\* the button can be pressed exactly when no worker is in flight
ButtonFollowsWorker == (run_btn = "normal") <=> (pc = "idle")

\* C25: at most one worker is in flight: the button is enabled exactly
\* when there is none; a worker is started only then, by the handler that
\* disables the button; the button is enabled again only by the worker as
\* it leaves through "finally", which every way out of it reaches; and
\* products.js is changed by no step but the write of that worker.
C25_Step ==
    /\ ButtonFollowsWorker
    /\ ButtonFollowsWorker'
    /\ pc' = "load" => (pc = "idle" /\ run_btn = "normal" /\ run_btn' = "disabled")
    /\ (run_btn = "disabled" /\ run_btn' = "normal") => (pc = "finally" /\ pc' = "idle")
    /\ (pc # "idle" /\ pc' = "idle") => pc = "finally"
    /\ (pc \in { "load", "match", "write" } /\ pc' # pc) => pc' \in { "fetch", "write", "finally" }
    /\ products_js' # products_js => pc = "write"

C25_OneWorkerInFlight == [][C25_Step]_vars

\* a worker is in flight, the button disabled, after an earlier worker
\* wrote products.js and left
C25_Witness ==
    /\ pc \in { "load", "fetch" }
    /\ run_btn = "disabled"
    /\ products_js.exists
    /\ \E i \in DOMAIN products_js.products :
         products_js.products[i].shopifyVariantId \notin { << >>, << "9" >> }

(***************************************************************************)
(* A run that fails writes nothing                                         *)
(***************************************************************************)

\* the last line of the log tells of an error
EndedInError ==
    /\ log # << >>
    /\ log[Len(log)].msg \in { "Error", "Error: 'products.js' not found in this folder." }

\* C26: a run that fails while it loads, fetches or matches leaves
\* products.js as it was: the step that fails changes nothing in the file,
\* the write is entered only from a match that went through, and the file
\* is changed only by the write, to a collection of which every local
\* record was handled.
C26_Step ==
    /\ (pc \in { "load", "fetch", "match" } /\ pc' = "finally") =>
          /\ products_js' = products_js
          /\ EndedInError'
    /\ pc' = "write" =>
          /\ pc = "match"
          /\ FirstBadLocal(products) = 0
          /\ ~BadVariantPrice(shopify_products)
    /\ products_js' # products_js =>
          /\ pc = "write"
          /\ products_js'.products = products
          /\ Len(products) = Len(products_js.products)
          /\ updated + Len(not_found) = Len(products)
          /\ ~EndedInError

C26_FailedRunWritesNothing == [][C26_Step]_vars

\* a run failed on a local record after it had given an earlier record an
\* id in memory, and products.js holds the records as they were
C26_Witness ==
    /\ pc = "finally"
    /\ EndedInError
    /\ updated >= 1
    /\ products # products_js.products
    /\ FirstBadLocal(products_js.products) >= 2
    /\ \E i \in DOMAIN products : BadLocalRecord(products[i])

(***************************************************************************)
(* The dropdowns of the filename suggester across selections               *)
(***************************************************************************)

\* the dropdowns hold the current selection, one value each, followed by
\* one blank dropdown when the selection has further options
DropdownsFollowSelection ==
    /\ Len(dropdown_vars) = Len(dropdown_widgets)
    /\ dropdown_vars =
          selected_cats \o (IF NextSegments(selected_cats) # {}
                            THEN << KeyBlank >> ELSE << >>)
    /\ valid_paths # << >> =>
          /\ \E q \in Range(valid_paths) : IsPrefix(selected_cats, q)
          /\ \E q \in Range(valid_paths) :
                IsPrefix(get_selected_cat_path(dropdown_vars), q)

\* a selection in dropdown i keeps the values to its left, puts one of the
\* offered values in dropdown i and leaves at most one dropdown after it,
\* which is blank
DropdownStep ==
    dropdown_vars' # dropdown_vars =>
        \E i \in DOMAIN dropdown_vars :
            /\ Len(dropdown_vars') \in { i, i + 1 }
            /\ Take(dropdown_vars', i - 1) = Take(dropdown_vars, i - 1)
            /\ dropdown_vars'[i] \in Range(dropdown_widgets[i].values)
            /\ Len(dropdown_vars') = i + 1 => dropdown_vars'[i + 1] = KeyBlank
            /\ Take(dropdown_widgets', i) = Take(dropdown_widgets, i)

====
